---- MODULE Spec2Model ----
(***************************************************************************)
(* Nutri-AI backend: the nutrition calculator (backend/calculations.py),   *)
(* the static catalog (backend/models.py), the recommendation and menu     *)
(* operations (backend/ai_service.py) and the HTTP handlers that call them *)
(* (backend/fastapi_app.py).                                               *)
(*                                                                         *)
(* Units.  Python computes in floats; the model computes the same          *)
(* expressions exactly, on integers, in these fixed units:                 *)
(*   - gram quantities: half grams (100 g is 200), so that the ties of     *)
(*     round() (12.5 g, 37.5 g, ...) are inputs the model has;             *)
(*   - per-100g nutrition values of the catalog: tenths (216 cal is 2160); *)
(*   - BMR: quarters of a kcal; TDEE and the daily calorie target: 1/160   *)
(*     of a kcal (the multipliers 1.2, 1.375, 1.55, 1.725 are 48/40,       *)
(*     55/40, 62/40, 69/40);                                               *)
(*   - macro gram targets: 1/720 of the unit of the calorie value given;   *)
(*   - current/total calories of a selection: 1/2000 of a kcal.            *)
(* Float rounding is modelled where a claim depends on it: the totals of   *)
(* the menus (see "Python floats" below).                                  *)
(***************************************************************************)
EXTENDS Integers, Sequences, FiniteSets, TLC

\* ------------------------------------------------------------------------
\* Bounds of the model
\* ------------------------------------------------------------------------

\* longest list of selected meals in a request / a selection
MaxSel == 2

\* longest quantity array in an AI reply
MaxReply == 2

\* most meals in the daily_meals of a request, the three meal times together
MaxDaily == 2

\* most entries in the AI reply to the menu prompt, the three meal times together
MaxMenu == 2

\* ------------------------------------------------------------------------
\* backend/models.py
\* ------------------------------------------------------------------------

Gender == {"male", "female"}

ActivityLevel == {"sedentary", "light", "moderate", "active"}

Goal == {"lose", "maintain", "gain"}

\* One cooking-method dict of SAMPLE_MEALS.  Its keys are method, portion,
\* calories, protein, carbs, fat, price: there is no "fiber" key.  The portion
\* text is never read and is left out.
CM(m, cal, p, c, f, pr) ==
    [method |-> m, calories |-> cal, protein |-> p, carbs |-> c, fat |-> f, price |-> pr]

\* Meal(...): the fields of class Meal (no fiber field).
Meal(n, cal, p, c, f, pr, ct, ft, cms) ==
    [name |-> n, calories |-> cal, protein |-> p, carbs |-> c, fat |-> f, price |-> pr,
     component_type |-> ct, food_type |-> ft, cooking_methods |-> cms]

\* SAMPLE_MEALS, in source order (Python index i is SAMPLE_MEALS[i + 1] here).
\* Names are written without diacritics.
SAMPLE_MEALS ==
    << Meal("Gao lut", 1300, 27, 270, 10, 5000, "carb", "grains",
            << CM("boiled", 2160, 45, 450, 17, 8000),
               CM("steamed", 2160, 45, 450, 17, 8000) >>),
       Meal("Yen mach", 3790, 132, 663, 69, 25000, "carb", "grains",
            << CM("boiled", 3070, 107, 541, 56, 20000),
               CM("raw", 1890, 66, 332, 35, 12500) >>),
       Meal("Khoai lang", 860, 16, 200, 1, 8000, "carb", "tubers",
            << CM("baked", 1290, 24, 300, 2, 12000),
               CM("boiled", 1290, 24, 300, 2, 12000) >>),
       Meal("Qua chuoi", 890, 11, 230, 3, 5000, "carb", "fruits",
            << CM("raw", 1050, 13, 270, 4, 6000) >>),
       Meal("Uc ga", 1650, 310, 0, 36, 80000, "protein", "poultry",
            << CM("grilled", 2480, 465, 0, 54, 120000),
               CM("boiled", 2480, 465, 0, 54, 120000),
               CM("baked", 2480, 465, 0, 54, 120000) >>),
       Meal("Trung ga", 1550, 130, 11, 110, 3000, "protein", "eggs",
            << CM("boiled", 1550, 130, 11, 110, 6000),
               CM("fried", 1840, 130, 11, 140, 6000),
               CM("scrambled", 1700, 130, 11, 120, 6000) >>),
       Meal("Ca hoi", 2080, 220, 0, 130, 120000, "protein", "fish",
            << CM("baked", 3120, 330, 0, 195, 180000),
               CM("grilled", 3120, 330, 0, 195, 180000) >>),
       Meal("Sua chua", 610, 35, 47, 33, 15000, "protein", "dairy",
            << CM("plain", 1220, 70, 94, 66, 30000) >>),
       Meal("Hanh nhan", 5790, 212, 216, 499, 35000, "good_fat", "nuts",
            << CM("raw", 1730, 64, 65, 150, 10500) >>),
       Meal("Bo", 7170, 25, 44, 811, 45000, "good_fat", "dairy",
            << CM("spread", 1070, 4, 7, 122, 6750) >>),
       Meal("Dau o liu", 8840, 0, 0, 1000, 25000, "good_fat", "oils",
            << CM("drizzled", 1320, 0, 0, 150, 3750) >>),
       Meal("Bong cai", 340, 28, 66, 4, 15000, "fiber", "vegetables",
            << CM("steamed", 510, 42, 99, 6, 22500),
               CM("boiled", 510, 42, 99, 6, 22500),
               CM("raw", 510, 42, 99, 6, 22500) >>),
       Meal("Ca chua", 180, 9, 39, 2, 10000, "fiber", "vegetables",
            << CM("raw", 360, 18, 78, 4, 20000) >>),
       Meal("Cai xoan", 490, 43, 88, 9, 12000, "fiber", "vegetables",
            << CM("steamed", 980, 86, 176, 18, 24000),
               CM("sauteed", 980, 86, 176, 18, 24000),
               CM("raw", 980, 86, 176, 18, 24000) >>),
       Meal("Tao", 520, 3, 138, 2, 8000, "fiber", "fruits",
            << CM("raw", 950, 5, 251, 3, 14400) >>) >>

\* ------------------------------------------------------------------------
\* backend/calculations.py
\* ------------------------------------------------------------------------

\* calculate_bmr with the male constant dropped (a mutant)
calculate_bmr_one_branch(user) ==
    40 * user.weight + 25 * user.height - 20 * user.age - 644

\* calculate_bmr, in quarters of a kcal: 4 * (10*weight + 6.25*height - 5*age + c)
calculate_bmr(user) ==
    IF user.gender = "male"
    THEN 40 * user.weight + 25 * user.height - 20 * user.age + 20
    ELSE 40 * user.weight + 25 * user.height - 20 * user.age - 644

\* activity_multipliers, times 40
activity_multipliers ==
    [a \in ActivityLevel |->
        CASE a = "sedentary" -> 48
          [] a = "light" -> 55
          [] a = "moderate" -> 62
          [] a = "active" -> 69]

\* calculate_tdee, in 1/160 kcal, from a BMR in quarters of a kcal
calculate_tdee(user, bmr) == bmr * activity_multipliers[user.activity]

\* get_daily_calories without the goal adjustment (a mutant)
get_daily_calories_no_goal(user) ==
    calculate_tdee(user, calculate_bmr(user))

\* get_daily_calories, in 1/160 kcal (500 kcal is 80000)
get_daily_calories(user) ==
    LET bmr == calculate_bmr(user)
        tdee == calculate_tdee(user, bmr)
    IN  IF user.goal = "lose" THEN tdee - 80000
        ELSE IF user.goal = "gain" THEN tdee + 80000
        ELSE tdee

calculate_daily_calories(user) == get_daily_calories(user)

\* get_macro_targets with the maintenance ratios for every goal but the carbs
\* of "gain" kept (a mutant: 0.30 + 0.45 + 0.30)
get_macro_targets_ratios_off(user, daily_calories) ==
    LET ratio == IF user.goal = "gain" THEN [protein |-> 6, carbs |-> 9, fat |-> 6]
                 ELSE [protein |-> 6, carbs |-> 8, fat |-> 6]
    IN  [protein |-> daily_calories * ratio.protein * 9,
         carbs   |-> daily_calories * ratio.carbs * 9,
         fat     |-> daily_calories * ratio.fat * 4]

\* get_macro_targets: a dict with exactly the keys protein, carbs, fat.
\* The ratios are in twentieths (0.35 is 7, 0.30 is 6, 0.45 is 9, 0.25 is 5,
\* 0.40 is 8).  (daily_calories * ratio) / 4 and / 9, in 1/720 of
\* daily_calories' unit: ratio/20/4 * 720 = ratio * 9, ratio/20/9 * 720 = ratio * 4.
get_macro_targets(user, daily_calories) ==
    LET ratio == IF user.goal = "lose" THEN [protein |-> 7, carbs |-> 7, fat |-> 6]
                 ELSE IF user.goal = "gain" THEN [protein |-> 6, carbs |-> 9, fat |-> 5]
                 ELSE [protein |-> 6, carbs |-> 8, fat |-> 6]
    IN  [protein |-> daily_calories * ratio.protein * 9,
         carbs   |-> daily_calories * ratio.carbs * 9,
         fat     |-> daily_calories * ratio.fat * 4]

\* ------------------------------------------------------------------------
\* Python built-ins used by the handlers
\* ------------------------------------------------------------------------

max(a, b) == IF a >= b THEN a ELSE b

\* round(n / d) for d > 0: the nearest integer, a tie going to the even one
round(n, d) ==
    LET q == n \div d
        r == n % d
    IN  IF 2 * r < d THEN q
        ELSE IF 2 * r > d THEN q + 1
        ELSE IF q % 2 = 0 THEN q ELSE q + 1

\* zip(a, b): only the first min(len(a), len(b)) positions are visited
ZipLen(a, b) == IF Len(a) <= Len(b) THEN Len(a) ELSE Len(b)

RECURSIVE SumTo(_, _)
\* sum(f[i] for i in 1..n)
SumTo(f, n) == IF n = 0 THEN 0 ELSE SumTo(f, n - 1) + f[n]

\* ------------------------------------------------------------------------
\* Python floats (IEEE 754 binary64), for the sums of create_fallback_menu.
\* A float is sign * mant * 2^exp with mant a natural number of at most
\* MantBits bits, kept odd (or zero) so that equal values are equal records.
\* mant exceeds 32 bits: it is a little-endian sequence of limbs of LimbBits
\* bits, without leading zero limbs.  Every operation rounds its exact result
\* to the nearest float, a tie going to the even mantissa.  Subnormals,
\* infinities and -0.0 are out of the range of the values met here.
\* ------------------------------------------------------------------------

\* the significand of a float has 53 bits
MantBits == 53

LimbBits == 15

Base == 2 ^ LimbBits

Rest(a) == IF a = <<>> THEN <<>> ELSE Tail(a)

Limb(a, i) == IF i <= Len(a) THEN a[i] ELSE 0

RECURSIVE BigNorm(_)
BigNorm(a) ==
    IF a # <<>> /\ a[Len(a)] = 0 THEN BigNorm(SubSeq(a, 1, Len(a) - 1)) ELSE a

RECURSIVE BigFromNat(_)
BigFromNat(n) == IF n = 0 THEN <<>> ELSE << n % Base >> \o BigFromNat(n \div Base)

RECURSIVE BigAddC(_, _, _)
BigAddC(a, b, carry) ==
    IF a = <<>> /\ b = <<>>
    THEN IF carry = 0 THEN <<>> ELSE << carry >>
    ELSE LET s == Limb(a, 1) + Limb(b, 1) + carry
         IN  << s % Base >> \o BigAddC(Rest(a), Rest(b), s \div Base)

BigAdd(a, b) == BigAddC(a, b, 0)

RECURSIVE BigMulSmallC(_, _, _)
\* a * k + carry, for 0 <= k < Base
BigMulSmallC(a, k, carry) ==
    IF a = <<>>
    THEN IF carry = 0 THEN <<>> ELSE << carry >>
    ELSE LET p == a[1] * k + carry
         IN  << p % Base >> \o BigMulSmallC(Tail(a), k, p \div Base)

BigMulSmall(a, k) == BigNorm(BigMulSmallC(a, k, 0))

RECURSIVE BigMul(_, _)
BigMul(a, b) ==
    IF b = <<>> THEN <<>>
    ELSE BigNorm(BigAdd(BigMulSmall(a, b[1]), << 0 >> \o BigMul(a, Tail(b))))

RECURSIVE BigDivRem(_, _)
\* quotient and remainder of a by d, for 0 < d < Base
BigDivRem(a, d) ==
    IF a = <<>> THEN [quot |-> <<>>, rem |-> 0]
    ELSE LET hi == BigDivRem(Tail(a), d)
             cur == hi.rem * Base + a[1]
         IN  [quot |-> BigNorm(<< cur \div d >> \o hi.quot), rem |-> cur % d]

RECURSIVE NatBitLen(_)
NatBitLen(n) == IF n = 0 THEN 0 ELSE 1 + NatBitLen(n \div 2)

BigBitLen(a) ==
    IF a = <<>> THEN 0 ELSE (Len(a) - 1) * LimbBits + NatBitLen(a[Len(a)])

\* bit k of a (bit 0 is the lowest)
BigBit(a, k) == (Limb(a, k \div LimbBits + 1) \div 2 ^ (k % LimbBits)) % 2

\* a \div 2^n
BigShr(a, n) ==
    LET r == n % LimbBits
        kept == SubSeq(a, n \div LimbBits + 1, Len(a))
    IN  BigNorm([i \in 1..Len(kept) |->
                    (kept[i] \div 2 ^ r) + (Limb(kept, i + 1) % 2 ^ r) * 2 ^ (LimbBits - r)])

\* a * 2^n
BigShl(a, n) ==
    IF a = <<>> THEN <<>>
    ELSE [i \in 1..(n \div LimbBits) |-> 0] \o BigMulSmall(a, 2 ^ (n % LimbBits))

\* a % 2^n = 0
BigLowZero(a, n) ==
    /\ \A i \in 1..(n \div LimbBits) : Limb(a, i) = 0
    /\ Limb(a, n \div LimbBits + 1) % 2 ^ (n % LimbBits) = 0

RECURSIVE BigLess(_, _)
BigLess(a, b) ==
    IF Len(a) # Len(b) THEN Len(a) < Len(b)
    ELSE IF a = <<>> THEN FALSE
    ELSE IF a[Len(a)] # b[Len(b)] THEN a[Len(a)] < b[Len(b)]
    ELSE BigLess(SubSeq(a, 1, Len(a) - 1), SubSeq(b, 1, Len(b) - 1))

RECURSIVE NatTrailingZeros(_)
NatTrailingZeros(n) == IF n % 2 = 1 THEN 0 ELSE 1 + NatTrailingZeros(n \div 2)

RECURSIVE TrailingZeros(_)
\* the number of zero bits below the lowest one bit of a # 0
TrailingZeros(a) ==
    IF a[1] = 0 THEN LimbBits + TrailingZeros(Tail(a)) ELSE NatTrailingZeros(a[1])

Zero == [sign |-> 1, mant |-> <<>>, exp |-> 0]

\* sign * mant * 2^exp with its mantissa made odd
Canon(sign, mant, exp) ==
    IF mant = <<>> THEN Zero
    ELSE LET tz == TrailingZeros(mant)
         IN  [sign |-> sign, mant |-> BigShr(mant, tz), exp |-> exp + tz]

\* the float nearest to sign * (mant + f) * 2^exp, where 0 <= f < 1 and sticky
\* tells whether f # 0: round to nearest, ties to even
RoundNearestEven(sign, mant, exp, sticky) ==
    LET len == BigBitLen(mant)
        s == len - MantBits
    IN  IF s <= 0 THEN Canon(sign, mant, exp)
        ELSE LET q == BigShr(mant, s)
                 guard == BigBit(mant, s - 1) = 1
                 below == sticky \/ ~BigLowZero(mant, s - 1)
                 up == guard /\ (below \/ BigBit(q, 0) = 1)
             IN  Canon(sign, IF up THEN BigAdd(q, << 1 >>) ELSE q, exp + s)

\* the float a decimal literal or a JSON number n/d denotes (0 < d < Base): the
\* one nearest to n/d
float(n, d) ==
    IF n = 0 THEN Zero
    ELSE LET a == BigFromNat(IF n < 0 THEN -n ELSE n)
             dr == BigDivRem(BigShl(a, 6 * LimbBits), d)
         IN  RoundNearestEven(IF n < 0 THEN -1 ELSE 1, dr.quot, -(6 * LimbBits),
                              dr.rem # 0)

\* x * y
float_mul(x, y) ==
    RoundNearestEven(x.sign * y.sign, BigMul(x.mant, y.mant), x.exp + y.exp, FALSE)

\* x + y for x and y of one sign (or zero), as are all sums taken here
float_add(x, y) ==
    IF x.mant = <<>> THEN y
    ELSE IF y.mant = <<>> THEN x
    ELSE LET e == IF x.exp <= y.exp THEN x.exp ELSE y.exp
         IN  RoundNearestEven(x.sign,
                              BigAdd(BigShl(x.mant, x.exp - e), BigShl(y.mant, y.exp - e)),
                              e, FALSE)

\* x < y
float_less(x, y) ==
    LET e == IF x.exp <= y.exp THEN x.exp ELSE y.exp
        a == BigShl(x.mant, x.exp - e)
        b == BigShl(y.mant, y.exp - e)
    IN  IF x.sign # y.sign THEN x.sign < y.sign /\ (a # <<>> \/ b # <<>>)
        ELSE IF x.sign = 1 THEN BigLess(a, b)
        ELSE BigLess(b, a)

\* the float next to x # 0 away from zero
float_next(x) ==
    LET len == BigBitLen(x.mant)
    IN  Canon(x.sign, BigAdd(BigShl(x.mant, MantBits - len), << 1 >>),
              x.exp - (MantBits - len))

\* ------------------------------------------------------------------------
\* Inputs
\* ------------------------------------------------------------------------

Names == {"An", "Binh"}

Ages == {25, 100}

Heights == {100, 170, 175}

Weights == {30, 70}

\* UserProfileRequest: gender, activity and goal arrive as free strings; "other"
\* stands for every string that is no member of the enum.
UserData ==
    [name : Names, age : Ages, gender : Gender \cup {"other"}, height : Heights,
     weight : Weights, activity : ActivityLevel, goal : Goal]

\* the profiles sent to the recommendation and menu endpoints
ReqUsers ==
    { [name |-> "An", age |-> 25, gender |-> "male", height |-> 170, weight |-> 70,
       activity |-> "moderate", goal |-> "maintain"],
      [name |-> "Binh", age |-> 100, gender |-> "female", height |-> 100, weight |-> 30,
       activity |-> "sedentary", goal |-> "lose"],
      [name |-> "An", age |-> 25, gender |-> "male", height |-> 175, weight |-> 70,
       activity |-> "active", goal |-> "gain"],
      [name |-> "Binh", age |-> 25, gender |-> "other", height |-> 170, weight |-> 70,
       activity |-> "light", goal |-> "maintain"] }

\* one entry of selected_meals: a name (in the catalog or not), a cooking
\* method ("" when none is given) and a quantity
MealData ==
    [name : {"Gao lut", "Trung ga", "Pho"}, cooking_method : {"", "fried", "grilled"},
     quantity : {75, 200}]

RECURSIVE SeqsUpTo(_, _)
\* the sequences over S of length at most n
SeqsUpTo(S, n) ==
    IF n = 0 THEN {<<>>}
    ELSE LET shorter == SeqsUpTo(S, n - 1)
         IN  shorter \cup {Append(s, x) : s \in {t \in shorter : Len(t) = n - 1}, x \in S}

\* budgets, in hundredths of a VND: 50000, 200000 and 12345.67
Budgets == {5000000, 20000000, 1234567}

\* one meal of a meal time of daily_meals: its name, its cooking method ("" when
\* none) and its quantity, 100 g or 150 g
DailyEntries ==
    [name : {"Gao lut"}, method : {"", "boiled", "fried"}, quantity : {200, 300}]
    \cup {[name |-> "Pho", method |-> "", quantity |-> 200]}

\* daily_meals[meal_time]: the parallel lists meals, quantities and methods;
\* with full = FALSE the client sent no quantities and no methods
MealTime(entries, full) ==
    [meals |-> [i \in 1..Len(entries) |-> entries[i].name],
     quantities |-> IF full THEN [i \in 1..Len(entries) |-> entries[i].quantity] ELSE <<>>,
     methods |-> IF full THEN [i \in 1..Len(entries) |-> entries[i].method] ELSE <<>>]

\* the daily_meals of a request: at most MaxDaily meals spread over breakfast,
\* lunch and dinner (a meal time without meals is skipped like a missing one)
DailyMeals ==
    {[breakfast |-> MealTime(SubSeq(flat, 1, i), full),
      lunch |-> MealTime(SubSeq(flat, i + 1, j), full),
      dinner |-> MealTime(SubSeq(flat, j + 1, Len(flat)), full)] :
        <<flat, i, j, full>> \in
            {t \in SeqsUpTo(DailyEntries, MaxDaily) \X (0..MaxDaily) \X (0..MaxDaily)
                        \X BOOLEAN :
                t[2] <= t[3] /\ t[3] <= Len(t[1])}}

\* User(..., gender=Gender(...), activity=ActivityLevel(...), goal=Goal(...)):
\* an unknown enum string raises ValueError
ValidUser(user_data) ==
    /\ user_data.gender \in Gender
    /\ user_data.activity \in ActivityLevel
    /\ user_data.goal \in Goal

\* ------------------------------------------------------------------------
\* State
\* ------------------------------------------------------------------------

VARIABLES
    catalog,              \* the module-level list SAMPLE_MEALS and its Meal objects
    pc,                   \* where the request in progress stands
    endpoint,             \* the handler serving it
    request,              \* the request body it was given
    user,                 \* the User built from the request
    selection,            \* the MealSelection handed to get_meal_recommendation
    budget,               \* the budget handed to get_optimized_menu
    daily_calories,       \* local of the operation in progress
    macro_targets,        \* local: the dict get_macro_targets returned
    current_totals,       \* local: current_calories .. current_cost
    api_key,              \* os.getenv("GEMINI_API_KEY") is set
    ai_calls,             \* generate_content calls made for this request
    reply,                \* what generate_content gave back
    adjusted_quantities,  \* local of get_meal_recommendation
    explanation,          \* local: where the explanation text came from
    recommendation,       \* the Recommendation returned
    menu,                 \* the Menu returned
    outcome,              \* of the operation: "none", "returned", "raised"
    exc,                  \* the exception raised, "" when none
    result,               \* what a handler returns that is no Recommendation or Menu
    http                  \* status the handler answered with, 0 while serving

vars == << catalog, pc, endpoint, request, user, selection, budget, daily_calories,
           macro_targets, current_totals, api_key, ai_calls, reply, adjusted_quantities,
           explanation, recommendation, menu, outcome, exc, result, http >>

NoUser ==
    [name |-> "", age |-> 0, gender |-> "", height |-> 0, weight |-> 0,
     activity |-> "", goal |-> ""]

NoSelection == [meals |-> <<>>, quantities |-> <<>>]

NoTargets == [protein |-> 0, carbs |-> 0, fat |-> 0]

NoTotals ==
    [calories |-> 0, protein |-> 0, carbs |-> 0, fat |-> 0, fiber |-> 0, cost |-> 0]


\* An element of the quantity array of a reply: a number (half grams), or
\* something float() rejects.
Num(x) == [numeric |-> TRUE, value |-> x]

NaN == [numeric |-> FALSE, value |-> 0]

\* -30 g, 37.5 g (halfway between two multiples of 25 g), 445 g
ReplyValues == {Num(-60), Num(75), Num(890), NaN}

\* What the AI step can give back:
\*   call_error  genai.Client or generate_content raised
\*   no_text     a response whose .text is None
\*   not_json    a text json.loads rejects
\*   not_object  JSON that is no object (a list, a string, a number)
\*   object      a JSON object: keys holds those of "adjusted_grams" and
\*               "adjusted_quantities" it has, adjusted_grams and
\*               adjusted_quantities are the arrays under them (<<>> for a key
\*               it lacks), expl its "explanation" entry ("absent", "text", or
\*               "number" for a value that is no string)
NoReply ==
    [kind |-> "none", keys |-> {}, adjusted_grams |-> <<>>, adjusted_quantities |-> <<>>,
     expl |-> "absent"]

\* the arrays under "adjusted_quantities" of the replies that hold both keys:
\* 100 g, and an element float() rejects
BothKeysQuantities == {<< Num(200) >>, << NaN >>}

Replies ==
    {[kind |-> k, keys |-> {}, adjusted_grams |-> <<>>, adjusted_quantities |-> <<>>,
      expl |-> "absent"] :
        k \in {"call_error", "no_text", "not_json", "not_object"}}
    \cup {[kind |-> "object", keys |-> {}, adjusted_grams |-> <<>>,
           adjusted_quantities |-> <<>>, expl |-> e] :
        e \in {"absent", "text", "number"}}
    \cup [kind : {"object"}, keys : {{"adjusted_grams"}},
          adjusted_grams : SeqsUpTo(ReplyValues, MaxReply), adjusted_quantities : {<<>>},
          expl : {"absent", "text"}]
    \cup [kind : {"object"}, keys : {{"adjusted_quantities"}}, adjusted_grams : {<<>>},
          adjusted_quantities : SeqsUpTo(ReplyValues, MaxReply), expl : {"absent", "text"}]
    \cup [kind : {"object"}, keys : {{"adjusted_grams", "adjusted_quantities"}},
          adjusted_grams : SeqsUpTo(ReplyValues, MaxReply),
          adjusted_quantities : BothKeysQuantities, expl : {"text"}]

NoRecommendation ==
    [adjusted_meals |-> <<>>, adjusted_quantities |-> <<>>, total_calories |-> 0,
     total_protein |-> 0, total_carbs |-> 0, total_fat |-> 0, explanation |-> ""]

NoMenu ==
    [breakfast |-> <<>>, lunch |-> <<>>, dinner |-> <<>>, total_cost |-> 0,
     total_calories |-> 0, explanation |-> ""]

NoResult == [kind |-> "none"]

\* ------------------------------------------------------------------------
\* backend/fastapi_app.py: building the selection
\* ------------------------------------------------------------------------

\* next((m for m in SAMPLE_MEALS if m.name == name), None): the position of the
\* first match, 0 for None
FindMeal(name) ==
    IF \E i \in 1..Len(catalog) : catalog[i].name = name
    THEN CHOOSE i \in 1..Len(catalog) :
            /\ catalog[i].name = name
            /\ \A j \in 1..(i - 1) : catalog[j].name # name
    ELSE 0

\* next((m for m in meal.cooking_methods if m["method"] == method), None)
FindMethod(meal, method) ==
    IF \E i \in 1..Len(meal.cooking_methods) : meal.cooking_methods[i].method = method
    THEN CHOOSE i \in 1..Len(meal.cooking_methods) :
            /\ meal.cooking_methods[i].method = method
            /\ \A j \in 1..(i - 1) : meal.cooking_methods[j].method # method
    ELSE 0

\* the Meal built for a catalog meal with a cooking method
ProcessedMeal(meal, method) ==
    Meal(meal.name \o " (" \o method.method \o ")", method.calories, method.protein,
         method.carbs, method.fat, method.price, meal.component_type, meal.food_type,
         << method >>)

RECURSIVE recommend_meals_selection(_)
\* the loop of recommend_meals over selected_meals: the meals and quantities lists
recommend_meals_selection(selected_meals) ==
    IF selected_meals = <<>> THEN NoSelection
    ELSE LET n == Len(selected_meals)
             sofar == recommend_meals_selection(SubSeq(selected_meals, 1, n - 1))
             meal_data == selected_meals[n]
             i == FindMeal(meal_data.name)
         IN  IF i = 0 THEN sofar
             ELSE LET meal == catalog[i]
                      j == FindMethod(meal, meal_data.cooking_method)
                      meals == IF meal_data.cooking_method # ""
                               THEN IF j # 0
                                    THEN Append(sofar.meals,
                                                ProcessedMeal(meal, meal.cooking_methods[j]))
                                    ELSE sofar.meals
                               ELSE Append(sofar.meals, meal)
                  IN  [meals |-> meals,
                       quantities |-> Append(sofar.quantities, meal_data.quantity)]

\* the catalog after a loop of recommend_meals that writes the values of the
\* cooking method into the catalog meal instead of building a new Meal (a
\* mutant)
recommend_meals_catalog_in_place(selected_meals) ==
    [k \in 1..Len(catalog) |->
        IF \E n \in 1..Len(selected_meals) :
              /\ selected_meals[n].name = catalog[k].name
              /\ selected_meals[n].cooking_method # ""
              /\ FindMethod(catalog[k], selected_meals[n].cooking_method) # 0
        THEN LET n == CHOOSE n \in 1..Len(selected_meals) :
                          /\ selected_meals[n].name = catalog[k].name
                          /\ selected_meals[n].cooking_method # ""
                          /\ FindMethod(catalog[k], selected_meals[n].cooking_method) # 0
             IN  ProcessedMeal(catalog[k],
                               catalog[k].cooking_methods[
                                   FindMethod(catalog[k], selected_meals[n].cooking_method)])
        ELSE catalog[k]]

\* the catalog after the loop of recommend_meals: processed_meal is a new Meal
\* object, and the catalog meal it was made from is only read
recommend_meals_catalog(selected_meals) == catalog

RECURSIVE daily_time_selection(_, _)
\* the inner loop of recommend_daily_meals over the first n meals of one meal
\* time: the meals and quantities it appends.  A meal with a cooking method the
\* catalog meal has is appended with servings = quantity / 100.0.
daily_time_selection(mt, n) ==
    IF n = 0 THEN NoSelection
    ELSE LET sofar == daily_time_selection(mt, n - 1)
             i == FindMeal(mt.meals[n])
         IN  IF i = 0 THEN sofar
             ELSE LET meal == catalog[i]
                      quantity == IF n <= Len(mt.quantities) THEN mt.quantities[n] ELSE 200
                      method == IF n <= Len(mt.methods) THEN mt.methods[n] ELSE ""
                      j == FindMethod(meal, method)
                  IN  IF method # "" /\ j # 0
                      THEN [meals |-> Append(sofar.meals,
                                             ProcessedMeal(meal, meal.cooking_methods[j])),
                            quantities |-> Append(sofar.quantities, quantity \div 100)]
                      ELSE [meals |-> Append(sofar.meals, meal),
                            quantities |-> Append(sofar.quantities, quantity)]

\* the loop of recommend_daily_meals over breakfast, lunch, dinner: all_meals
\* and all_quantities
recommend_daily_meals_selection(daily_meals) ==
    LET b == daily_time_selection(daily_meals.breakfast, Len(daily_meals.breakfast.meals))
        l == daily_time_selection(daily_meals.lunch, Len(daily_meals.lunch.meals))
        d == daily_time_selection(daily_meals.dinner, Len(daily_meals.dinner.meals))
    IN  [meals |-> b.meals \o l.meals \o d.meals,
         quantities |-> b.quantities \o l.quantities \o d.quantities]

\* ------------------------------------------------------------------------
\* backend/ai_service.py: get_meal_recommendation
\* ------------------------------------------------------------------------

\* the per-100g values the first loop uses for a meal: those of its first
\* cooking method when it has any, its base values otherwise
current_per_100g(meal) ==
    IF meal.cooking_methods # <<>>
    THEN LET method_data == meal.cooking_methods[1]
         IN  [calories |-> method_data.calories, protein |-> method_data.protein,
              carbs |-> method_data.carbs, fat |-> method_data.fat,
              fiber |-> IF "fiber" \in DOMAIN method_data THEN method_data.fiber ELSE 0]
    ELSE [calories |-> meal.calories, protein |-> meal.protein, carbs |-> meal.carbs,
          fat |-> meal.fat,
          fiber |-> IF "fiber" \in DOMAIN meal THEN meal.fiber ELSE 0]

\* current_calories .. current_cost, summed over zip(meals, quantities).
\* Nutrition: 1/2000 of a unit; cost: 1/200 VND.
current(sel) ==
    LET n == ZipLen(sel.meals, sel.quantities)
        v(i) == current_per_100g(sel.meals[i])
        q(i) == sel.quantities[i]
    IN  [calories |-> SumTo([i \in 1..n |-> v(i).calories * q(i)], n),
         protein  |-> SumTo([i \in 1..n |-> v(i).protein * q(i)], n),
         carbs    |-> SumTo([i \in 1..n |-> v(i).carbs * q(i)], n),
         fat      |-> SumTo([i \in 1..n |-> v(i).fat * q(i)], n),
         fiber    |-> SumTo([i \in 1..n |-> v(i).fiber * q(i)], n),
         cost     |-> SumTo([i \in 1..n |-> sel.meals[i].price * q(i)], n)]

\* the macro_targets keys the prompt's f-string reads
PromptKeys == {"protein", "carbs", "fat", "fiber"}


\* result.get("adjusted_grams", result.get("adjusted_quantities",
\* selection.quantities)): the elements of the array the loop runs over
raw_grams_items(r, sel) ==
    IF "adjusted_grams" \in r.keys THEN r.adjusted_grams
    ELSE IF "adjusted_quantities" \in r.keys THEN r.adjusted_quantities
    ELSE [i \in 1..Len(sel.quantities) |-> Num(sel.quantities[i])]

\* json.loads(response.text) gives a dict and every element of the array taken
\* from it passes float(): the inner try block runs to its end
ParseSucceeds(r, sel) ==
    /\ r.kind = "object"
    /\ \A i \in 1..Len(raw_grams_items(r, sel)) : raw_grams_items(r, sel)[i].numeric

\* raw_grams with "adjusted_quantities" looked up before "adjusted_grams" (a
\* mutant)
raw_grams_quantities_first(r, sel) ==
    IF "adjusted_quantities" \in r.keys
    THEN [i \in 1..Len(r.adjusted_quantities) |-> r.adjusted_quantities[i].value]
    ELSE IF "adjusted_grams" \in r.keys
    THEN [i \in 1..Len(r.adjusted_grams) |-> r.adjusted_grams[i].value]
    ELSE sel.quantities

\* raw_grams, as plain numbers
raw_grams(r, sel) ==
    [i \in 1..Len(raw_grams_items(r, sel)) |-> raw_grams_items(r, sel)[i].value]

\* the success loop without its max(25, .) (a mutant)
parsed_quantities_unclamped(raw) == [i \in 1..Len(raw) |-> round(raw[i], 50) * 50]

\* the success loop truncating to the multiple of 25 below instead of rounding
\* (a mutant)
parsed_quantities_floor(raw) == [i \in 1..Len(raw) |-> max(50, (raw[i] \div 50) * 50)]

\* the success loop: round(float(gram_qty) / 25) * 25, then max(25, .)
\* (25 g is 50 half grams)
parsed_quantities(raw) == [i \in 1..Len(raw) |-> max(50, round(raw[i], 50) * 50)]

\* the inner except truncating instead of rounding (a mutant)
rounded_current_quantities_floor(sel) ==
    [i \in 1..Len(sel.quantities) |-> max(50, (sel.quantities[i] \div 50) * 50)]

\* the inner except: the current quantities rounded the same way
rounded_current_quantities(sel) ==
    [i \in 1..Len(sel.quantities) |-> max(50, round(sel.quantities[i], 50) * 50)]

\* the outer except without the minimum of 25 g: round(qty * scale_factor / 25)
\* * 25 alone (a mutant)
scaled_quantities_unfloored(sel, daily, current_calories) ==
    [i \in 1..Len(sel.quantities) |->
        round(sel.quantities[i] * daily, 4 * max(current_calories, 2000)) * 50]

\* the outer except: scale_factor = daily_calories / max(current_calories, 1),
\* rounded_grams = max(25, round(qty * scale_factor / 25) * 25).
\* With daily in 1/160 kcal and current in 1/2000 kcal,
\* qty * scale_factor / 25 = qty * daily / (4 * max(current, 2000)).
scaled_quantities(sel, daily, current_calories) ==
    [i \in 1..Len(sel.quantities) |->
        max(50, round(sel.quantities[i] * daily, 4 * max(current_calories, 2000)) * 50)]

\* the second loop reading the base values of every meal, its first cooking
\* method ignored (a mutant)
total_per_100g_base(meal) ==
    [calories |-> meal.calories, protein |-> meal.protein, carbs |-> meal.carbs,
     fat |-> meal.fat,
     fiber |-> IF "fiber" \in DOMAIN meal THEN meal.fiber ELSE 0]

\* the second loop: the per-100g values used for the recalculated totals
total_per_100g(meal) ==
    IF meal.cooking_methods # <<>>
    THEN LET method_data == meal.cooking_methods[1]
         IN  [calories |-> method_data.calories, protein |-> method_data.protein,
              carbs |-> method_data.carbs, fat |-> method_data.fat,
              fiber |-> IF "fiber" \in DOMAIN method_data THEN method_data.fiber ELSE 0]
    ELSE [calories |-> meal.calories, protein |-> meal.protein, carbs |-> meal.carbs,
          fat |-> meal.fat,
          fiber |-> IF "fiber" \in DOMAIN meal THEN meal.fiber ELSE 0]

\* total_calories .. total_cost, summed over zip(selection.meals, adjusted_quantities)
total(sel, adjusted) ==
    LET n == ZipLen(sel.meals, adjusted)
        v(i) == total_per_100g(sel.meals[i])
    IN  [calories |-> SumTo([i \in 1..n |-> v(i).calories * adjusted[i]], n),
         protein  |-> SumTo([i \in 1..n |-> v(i).protein * adjusted[i]], n),
         carbs    |-> SumTo([i \in 1..n |-> v(i).carbs * adjusted[i]], n),
         fat      |-> SumTo([i \in 1..n |-> v(i).fat * adjusted[i]], n),
         fiber    |-> SumTo([i \in 1..n |-> v(i).fiber * adjusted[i]], n),
         cost     |-> SumTo([i \in 1..n |-> sel.meals[i].price * adjusted[i]], n)]

\* Recommendation(...): the model keeps its declared fields (total_fiber and
\* total_cost are no fields of the class and are dropped)
Recommendation(sel, adjusted, t, expl) ==
    [adjusted_meals |-> sel.meals, adjusted_quantities |-> adjusted,
     total_calories |-> t.calories, total_protein |-> t.protein,
     total_carbs |-> t.carbs, total_fat |-> t.fat, explanation |-> expl]

\* --- get_meal_recommendation, from its entry to the prompt -----------------

\* daily_calories = calculate_daily_calories(user); macro_targets = ...
gmr_targets ==
    /\ pc = "gmr_14"
    /\ daily_calories' = calculate_daily_calories(user)
    /\ macro_targets' = get_macro_targets(user, calculate_daily_calories(user))
    /\ pc' = "gmr_18"
    /\ UNCHANGED << catalog, result,
                    endpoint, request, user, selection, budget, current_totals, api_key, ai_calls,
                    reply, adjusted_quantities, explanation, recommendation, menu, outcome,
                    exc, http >>

\* the first loop over zip(selection.meals, selection.quantities)
gmr_current_totals ==
    /\ pc = "gmr_18"
    /\ current_totals' = current(selection)
    /\ pc' = "gmr_62"
    /\ UNCHANGED << catalog, result,
                    endpoint, request, user, selection, budget, daily_calories, macro_targets,
                    api_key, ai_calls, reply, adjusted_quantities, explanation,
                    recommendation, menu, outcome, exc, http >>

\* prompt = f"""...""": the f-string reads macro_targets['protein'], ['carbs'],
\* ['fat'] and ['fiber']; a key the dict lacks raises KeyError, outside any try
gmr_prompt ==
    /\ pc = "gmr_62"
    /\ IF PromptKeys \subseteq DOMAIN macro_targets
       THEN /\ pc' = "gmr_115"
            /\ UNCHANGED << outcome, exc >>
       ELSE /\ pc' = "gmr_done"
            /\ outcome' = "raised"
            /\ exc' = "KeyError"
    /\ UNCHANGED << catalog, result,
                    endpoint, request, user, selection, budget, daily_calories, macro_targets,
                    current_totals, api_key, ai_calls, reply, adjusted_quantities,
                    explanation, recommendation, menu, http >>

\* --- get_meal_recommendation, the try statement and what follows it --------

\* api_key = os.getenv("GEMINI_API_KEY"); if not api_key: raise ValueError
gmr_getenv ==
    /\ pc = "gmr_115"
    /\ pc' = IF api_key THEN "gmr_120" ELSE "gmr_154"
    /\ UNCHANGED << catalog, result,
                    endpoint, request, user, selection, budget, daily_calories, macro_targets,
                    current_totals, api_key, ai_calls, reply, adjusted_quantities,
                    explanation, recommendation, menu, outcome, exc, http >>

\* client = genai.Client(...); response = client.models.generate_content(...)
gmr_generate_content ==
    /\ pc = "gmr_120"
    /\ \E r \in Replies :
        /\ reply' = r
        /\ pc' = IF r.kind = "call_error" THEN "gmr_154" ELSE "gmr_128"
    /\ ai_calls' = ai_calls + 1
    /\ UNCHANGED << catalog, result,
                    endpoint, request, user, selection, budget, daily_calories, macro_targets,
                    current_totals, api_key, adjusted_quantities, explanation,
                    recommendation, menu, outcome, exc, http >>

\* print(response.text[:200]) and the inner try/except: a response without text
\* raises TypeError to the outer except; a reply that parses gives the snapped
\* AI quantities; anything else gives the snapped current quantities
gmr_parse ==
    /\ pc = "gmr_128"
    /\ IF reply.kind = "no_text"
       THEN /\ pc' = "gmr_154"
            /\ UNCHANGED << adjusted_quantities, explanation >>
       ELSE IF ParseSucceeds(reply, selection)
       THEN /\ adjusted_quantities' = parsed_quantities(raw_grams(reply, selection))
            /\ explanation' = IF reply.expl = "absent" THEN "default" ELSE reply.expl
            /\ pc' = "gmr_167"
       ELSE /\ adjusted_quantities' = rounded_current_quantities(selection)
            /\ explanation' = "unable_to_parse"
            /\ pc' = "gmr_167"
    /\ UNCHANGED << catalog, result,
                    endpoint, request, user, selection, budget, daily_calories, macro_targets,
                    current_totals, api_key, ai_calls, reply, recommendation, menu, outcome,
                    exc, http >>

\* the outer except: simple scaling
gmr_scaling_fallback ==
    /\ pc = "gmr_154"
    /\ adjusted_quantities' =
           scaled_quantities(selection, daily_calories, current_totals.calories)
    /\ explanation' = "simple_scaling"
    /\ pc' = "gmr_167"
    /\ UNCHANGED << catalog, result,
                    endpoint, request, user, selection, budget, daily_calories, macro_targets,
                    current_totals, api_key, ai_calls, reply, recommendation, menu, outcome,
                    exc, http >>

\* the second loop and return Recommendation(...): an explanation that is no
\* string fails the model's validation, which raises
gmr_return ==
    /\ pc = "gmr_167"
    /\ pc' = "gmr_done"
    /\ IF explanation = "number"
       THEN /\ outcome' = "raised"
            /\ exc' = "ValidationError"
            /\ UNCHANGED recommendation
       ELSE /\ outcome' = "returned"
            /\ recommendation' =
                   Recommendation(selection, adjusted_quantities,
                                  total(selection, adjusted_quantities), explanation)
            /\ UNCHANGED exc
    /\ UNCHANGED << catalog, result,
                    endpoint, request, user, selection, budget, daily_calories, macro_targets,
                    current_totals, api_key, ai_calls, reply, adjusted_quantities,
                    explanation, menu, http >>


\* ------------------------------------------------------------------------
\* backend/ai_service.py: get_optimized_menu
\* ------------------------------------------------------------------------

\* the cooking-method keys the f-string of meals_str reads
MealsStrKeys == {"method", "calories", "protein", "carbs", "fat", "fiber", "price"}

gom_targets ==
    /\ pc = "gom_222"
    /\ daily_calories' = calculate_daily_calories(user)
    /\ macro_targets' = get_macro_targets(user, calculate_daily_calories(user))
    /\ pc' = "gom_225"
    /\ UNCHANGED << catalog, result,
                    endpoint, request, user, selection, budget, current_totals, api_key,
                    ai_calls, reply, adjusted_quantities, explanation, recommendation, menu,
                    outcome, exc, http >>

\* meals_str = "\n".join([... for meal in SAMPLE_MEALS]): every cooking method of
\* every catalog meal is formatted; a key a method lacks raises KeyError,
\* outside any try
gom_meals_str ==
    /\ pc = "gom_225"
    /\ IF \A i \in 1..Len(catalog) :
            \A j \in 1..Len(catalog[i].cooking_methods) :
                MealsStrKeys \subseteq DOMAIN catalog[i].cooking_methods[j]
       THEN /\ pc' = "gom_273"
            /\ UNCHANGED << outcome, exc >>
       ELSE /\ pc' = "gom_done"
            /\ outcome' = "raised"
            /\ exc' = "KeyError"
    /\ UNCHANGED << catalog, result,
                    endpoint, request, user, selection, budget, daily_calories,
                    macro_targets, current_totals, api_key, ai_calls, reply,
                    adjusted_quantities, explanation, recommendation, menu, http >>

\* --- get_optimized_menu, the try statement ----------------------------------

\* str.lower() on the strings of the model
Lower(str) ==
    CASE str = "Gao lut" -> "gao lut"
      [] str = "Yen mach" -> "yen mach"
      [] str = "Khoai lang" -> "khoai lang"
      [] str = "Qua chuoi" -> "qua chuoi"
      [] str = "Uc ga" -> "uc ga"
      [] str = "Trung ga" -> "trung ga"
      [] str = "Ca hoi" -> "ca hoi"
      [] str = "Sua chua" -> "sua chua"
      [] str = "Hanh nhan" -> "hanh nhan"
      [] str = "Bo" -> "bo"
      [] str = "Dau o liu" -> "dau o liu"
      [] str = "Bong cai" -> "bong cai"
      [] str = "Ca chua" -> "ca chua"
      [] str = "Cai xoan" -> "cai xoan"
      [] str = "Tao" -> "tao"
      [] str = "Pho" -> "pho"
      [] str = "Grilled" -> "grilled"
      [] OTHER -> str

\* the nutrition and price numbers an entry of the reply carries (per 100 g,
\* in the units of the catalog)
AiNumbers ==
    { [calories |-> 4000, protein |-> 200, carbs |-> 500, fat |-> 100, fiber |-> 30,
       price |-> 30000],
      [calories |-> 10, protein |-> 990, carbs |-> 0, fat |-> 0, fiber |-> 0,
       price |-> 1] }

\* the entries of a reply: a catalog meal under another letter case, with a
\* cooking method it has (under another letter case) or one it does not have,
\* 450 g; a meal the catalog does not have, 450 g; a catalog meal without
\* method, with a negative amount; an entry whose grams float() rejects
MenuEntries ==
    [name : {"uc ga"}, method : {"Grilled", "fried"}, grams : {Num(900)},
     ai : {CHOOSE n \in AiNumbers : TRUE}]
    \cup [name : {"Pho"}, method : {""}, grams : {Num(900)}, ai : AiNumbers]
    \cup [name : {"uc ga"}, method : {""}, grams : {Num(-60)},
          ai : {CHOOSE n \in AiNumbers : TRUE}]
    \cup [name : {"uc ga"}, method : {""}, grams : {NaN},
          ai : {CHOOSE n \in AiNumbers : TRUE}]

\* the totals a reply may carry beside its lists (keys "total_cost" and
\* "total_calories" of the parsed object, which the code never reads), in VND
\* and kcal
AiTotals == [total_cost |-> 777, total_calories |-> 999]

\* the explanation of a reply (absent, a string, or a number) and whether the
\* reply carries totals
ReplyExtras ==
    {<< "absent", FALSE >>, << "text", FALSE >>, << "text", TRUE >>, << "number", FALSE >>}

\* What the AI step of get_optimized_menu can give back: as for the
\* recommendation, an object holding the lists breakfast, lunch and dinner (a
\* missing key reads as the empty list) and possibly an explanation and totals
MenuReplies ==
    {[kind |-> k, breakfast |-> <<>>, lunch |-> <<>>, dinner |-> <<>>, expl |-> "absent",
      has_totals |-> FALSE] :
        k \in {"call_error", "no_text", "not_json", "not_object"}}
    \cup {[kind |-> "object",
           breakfast |-> SubSeq(t[1], 1, t[2]),
           lunch |-> SubSeq(t[1], t[2] + 1, t[3]),
           dinner |-> SubSeq(t[1], t[3] + 1, Len(t[1])),
           expl |-> t[4][1],
           has_totals |-> t[4][2]] :
             t \in {u \in SeqsUpTo(MenuEntries, MaxMenu) \X (0..MaxMenu) \X (0..MaxMenu)
                            \X ReplyExtras :
                       u[2] <= u[3] /\ u[3] <= Len(u[1])}}

\* the position of the first catalog meal whose name equals meal_name in lower
\* case, 0 when there is none
FindMealLower(meal_name) ==
    IF \E i \in 1..Len(catalog) : Lower(catalog[i].name) = Lower(meal_name)
    THEN CHOOSE i \in 1..Len(catalog) :
            /\ Lower(catalog[i].name) = Lower(meal_name)
            /\ \A k \in 1..(i - 1) : Lower(catalog[k].name) # Lower(meal_name)
    ELSE 0

\* the position of the first cooking method of meal named method in lower case
FindMethodLower(meal, method) ==
    IF \E j \in 1..Len(meal.cooking_methods) :
          Lower(meal.cooking_methods[j].method) = Lower(method)
    THEN CHOOSE j \in 1..Len(meal.cooking_methods) :
            /\ Lower(meal.cooking_methods[j].method) = Lower(method)
            /\ \A k \in 1..(j - 1) : Lower(meal.cooking_methods[k].method) # Lower(method)
    ELSE 0

\* the fields of class Meal
MealFields == DOMAIN Meal("", 0, 0, 0, 0, 0, "", "", <<>>)

\* the numbers of the reply entry itself
ai_values(meal_data) ==
    [calories |-> meal_data.ai.calories, protein |-> meal_data.ai.protein,
     carbs |-> meal_data.ai.carbs, fat |-> meal_data.ai.fat,
     fiber |-> meal_data.ai.fiber, price |-> meal_data.ai.price]

\* the values of cooking method method_data of catalog meal actual_meal, with
\* the method's own price when it has one
method_values(actual_meal, method_data) ==
    [calories |-> method_data.calories, protein |-> method_data.protein,
     carbs |-> method_data.carbs, fat |-> method_data.fat,
     fiber |-> IF "fiber" \in DOMAIN method_data THEN method_data.fiber ELSE 0,
     price |-> IF "price" \in DOMAIN method_data THEN method_data.price
               ELSE actual_meal.price]

\* the base values and the base price of catalog meal actual_meal
base_values(actual_meal) ==
    [calories |-> actual_meal.calories, protein |-> actual_meal.protein,
     carbs |-> actual_meal.carbs, fat |-> actual_meal.fat,
     fiber |-> IF "fiber" \in DOMAIN actual_meal THEN actual_meal.fiber ELSE 0,
     price |-> actual_meal.price]

\* catalog_values with the base price also for a cooking method the meal has
\* (a mutant)
catalog_values_base_price(actual_meal, method, j) ==
    IF method # "" /\ actual_meal.cooking_methods # <<>> /\ j # 0
    THEN [method_values(actual_meal, actual_meal.cooking_methods[j])
             EXCEPT !.price = actual_meal.price]
    ELSE base_values(actual_meal)

\* the values of catalog meal actual_meal for the method named in the reply:
\* those of the cooking method of that name (compared in lower case, j its
\* position), else the base values
catalog_values(actual_meal, method, j) ==
    IF method # "" /\ actual_meal.cooking_methods # <<>> /\ j # 0
    THEN method_values(actual_meal, actual_meal.cooking_methods[j])
    ELSE base_values(actual_meal)

\* the per-100g record create_meal_from_response scales: the values of the
\* catalog meal of that name (compared in lower case, i its position), else the
\* numbers of the reply
menu_per_100g_at(meal_data, i) ==
    IF i = 0 THEN ai_values(meal_data)
    ELSE catalog_values(catalog[i], meal_data.method,
                        FindMethodLower(catalog[i], meal_data.method))

\* menu_per_100g taking the numbers of the reply whatever the catalog holds (a
\* mutant)
menu_per_100g_trusting(meal_data) == ai_values(meal_data)

menu_per_100g(meal_data) == menu_per_100g_at(meal_data, FindMealLower(meal_data.name))

\* Meal(...) of create_meal_from_response for the per-100g values v: nutrition
\* in 1/2000 of a unit, price in 1/200 VND
built_meal(meal_data, v, rounded_grams) ==
    Meal(meal_data.name, v.calories * rounded_grams, v.protein * rounded_grams,
         v.carbs * rounded_grams, v.fat * rounded_grams, v.price * rounded_grams,
         "mixed", "prepared",
         IF meal_data.method # ""
         THEN << [method |-> meal_data.method, calories |-> v.calories * rounded_grams,
                  protein |-> v.protein * rounded_grams,
                  carbs |-> v.carbs * rounded_grams, fat |-> v.fat * rounded_grams,
                  fiber |-> v.fiber * rounded_grams, price |-> v.price * rounded_grams,
                  grams |-> rounded_grams] >>
         ELSE <<>>)

\* meal.method = method; meal.quantity = rounded_grams; return meal: assigning
\* an attribute that is no field of the pydantic model Meal raises ValueError
with_method_and_quantity(meal) ==
    IF {"method", "quantity"} \subseteq MealFields
    THEN [raised |-> "", built |-> TRUE, meal |-> meal]
    ELSE [raised |-> "ValueError", built |-> TRUE, meal |-> meal]

\* create_meal_from_response: the Meal it builds and how it ends.
\* float(grams) raises ValueError for grams that are no number.
create_meal_from_response(meal_data) ==
    IF ~meal_data.grams.numeric
    THEN [raised |-> "ValueError", built |-> FALSE]
    ELSE with_method_and_quantity(
             built_meal(meal_data, menu_per_100g(meal_data),
                        max(50, round(meal_data.grams.value, 50) * 50)))

\* the three loops over result.get("breakfast", []), ("lunch", []), ("dinner", [])
MealsFromResponse(entries) ==
    [i \in 1..Len(entries) |-> create_meal_from_response(entries[i])]

\* the meals of the created entries
meals_of(created) == [i \in 1..Len(created) |-> created[i].meal]

\* corrected_total_cost = sum(meal.price for meal in all_meals),
\* corrected_total_calories = sum(meal.calories for meal in all_meals)
corrected_totals(all_meals) ==
    [cost |-> SumTo([i \in 1..Len(all_meals) |-> all_meals[i].price], Len(all_meals)),
     calories |->
         SumTo([i \in 1..Len(all_meals) |-> all_meals[i].calories], Len(all_meals))]

\* Menu(...) taking the totals of the reply when it carries some (a mutant)
Menu_ai_totals(breakfast_meals, lunch_meals, dinner_meals, expl) ==
    LET t == corrected_totals(breakfast_meals \o lunch_meals \o dinner_meals)
    IN  [breakfast |-> breakfast_meals, lunch |-> lunch_meals, dinner |-> dinner_meals,
         total_cost |-> IF reply.has_totals THEN float(AiTotals.total_cost, 1)
                        ELSE float(t.cost, 200),
         total_calories |-> IF reply.has_totals THEN float(AiTotals.total_calories, 1)
                            ELSE float(t.calories, 2000),
         explanation |-> expl]

\* Menu(...) of the success path; its totals are floats
Menu(breakfast_meals, lunch_meals, dinner_meals, expl) ==
    LET t == corrected_totals(breakfast_meals \o lunch_meals \o dinner_meals)
    IN  [breakfast |-> breakfast_meals, lunch |-> lunch_meals, dinner |-> dinner_meals,
         total_cost |-> float(t.cost, 200), total_calories |-> float(t.calories, 2000),
         explanation |-> expl]

\* the float sums of create_fallback_menu: budget * 0.3 + budget * 0.4 +
\* budget * 0.3 and daily_calories * 0.25 + daily_calories * 0.45 +
\* daily_calories * 0.30, each product and each sum rounded as Python rounds
\* it.  b is the budget in hundredths of a VND and daily the target in 1/160
\* kcal; the floats the function is given are the ones nearest to these.
fallback_sums(b, daily) ==
    [total_cost |->
         float_add(float_add(float_mul(float(b, 100), float(3, 10)),
                             float_mul(float(b, 100), float(4, 10))),
                   float_mul(float(b, 100), float(3, 10))),
     total_calories |->
         float_add(float_add(float_mul(float(daily, 160), float(25, 100)),
                             float_mul(float(daily, 160), float(45, 100))),
                   float_mul(float(daily, 160), float(30, 100)))]

\* create_fallback_menu with 0.4 for the third share of the budget and 0.35
\* for the third share of the calories (a mutant)
create_fallback_menu_shares_off(u, b, daily) ==
    [breakfast |-> << catalog[2] >>,
     lunch |-> << catalog[5] >>,
     dinner |-> << catalog[10] >>,
     total_cost |->
         float_add(float_add(float_mul(float(b, 100), float(3, 10)),
                             float_mul(float(b, 100), float(4, 10))),
                   float_mul(float(b, 100), float(4, 10))),
     total_calories |->
         float_add(float_add(float_mul(float(daily, 160), float(25, 100)),
                             float_mul(float(daily, 160), float(45, 100))),
                   float_mul(float(daily, 160), float(35, 100))),
     explanation |-> "fallback_menu"]

\* create_fallback_menu: SAMPLE_MEALS[1], [4] and [9] of the source and the
\* sums of the shares
create_fallback_menu(u, b, daily) ==
    LET sums == fallback_sums(b, daily)
    IN  [breakfast |-> << catalog[2] >>,
         lunch |-> << catalog[5] >>,
         dinner |-> << catalog[10] >>,
         total_cost |-> sums.total_cost,
         total_calories |-> sums.total_calories,
         explanation |-> "fallback_menu"]

\* api_key = os.getenv("GEMINI_API_KEY"); if not api_key: raise ValueError
gom_getenv ==
    /\ pc = "gom_273"
    /\ pc' = IF api_key THEN "gom_278" ELSE "gom_318"
    /\ UNCHANGED << catalog, result,
                    endpoint, request, user, selection, budget, daily_calories,
                    macro_targets, current_totals, api_key, ai_calls, reply,
                    adjusted_quantities, explanation, recommendation, menu, outcome, exc,
                    http >>

\* client = genai.Client(...); response = client.models.generate_content(...)
gom_generate_content ==
    /\ pc = "gom_278"
    /\ \E r \in MenuReplies :
        /\ reply' = r
        /\ pc' = IF r.kind = "call_error" THEN "gom_318" ELSE "gom_286"
    /\ ai_calls' = ai_calls + 1
    /\ UNCHANGED << catalog, result,
                    endpoint, request, user, selection, budget, daily_calories,
                    macro_targets, current_totals, api_key, adjusted_quantities,
                    explanation, recommendation, menu, outcome, exc, http >>

\* whether lines 286-316 raise for reply r
try_raises(r) ==
    \/ r.kind # "object"
    \/ \E i \in 1..Len(r.breakfast \o r.lunch \o r.dinner) :
          create_meal_from_response((r.breakfast \o r.lunch \o r.dinner)[i]).raised # ""
    \/ r.expl = "number"

\* result = json.loads(response.text), the three loops, the totals and
\* return Menu(...): json.loads raises for a response without text or with a
\* text that is no JSON, result.get for JSON that is no object,
\* create_meal_from_response as described, Menu(...) for an explanation that is
\* no string; every exception goes to the except clause
gom_build ==
    /\ pc = "gom_286"
    /\ IF try_raises(reply)
       THEN /\ pc' = "gom_318"
            /\ UNCHANGED << menu, explanation, outcome >>
       ELSE /\ menu' = Menu(meals_of(MealsFromResponse(reply.breakfast)),
                            meals_of(MealsFromResponse(reply.lunch)),
                            meals_of(MealsFromResponse(reply.dinner)),
                            IF reply.expl = "absent" THEN "default_menu" ELSE "text")
            /\ explanation' = IF reply.expl = "absent" THEN "default_menu" ELSE "text"
            /\ outcome' = "returned"
            /\ pc' = "gom_done"
    /\ UNCHANGED << catalog, result,
                    endpoint, request, user, selection, budget, daily_calories,
                    macro_targets, current_totals, api_key, ai_calls, reply,
                    adjusted_quantities, recommendation, exc, http >>

\* an except clause that calls the AI once more before it gives up (a mutant)
gom_fallback_retrying ==
    /\ pc = "gom_318"
    /\ IF api_key /\ ai_calls < 2
       THEN /\ pc' = "gom_278"
            /\ UNCHANGED << menu, explanation, outcome >>
       ELSE /\ menu' = create_fallback_menu(user, budget, daily_calories)
            /\ explanation' = "fallback_menu"
            /\ outcome' = "returned"
            /\ pc' = "gom_done"
    /\ UNCHANGED << catalog, result,
                    endpoint, request, user, selection, budget, daily_calories,
                    macro_targets, current_totals, api_key, ai_calls, reply,
                    adjusted_quantities, recommendation, exc, http >>

\* except Exception: return create_fallback_menu(user, budget, daily_calories)
gom_fallback ==
    /\ pc = "gom_318"
    /\ menu' = create_fallback_menu(user, budget, daily_calories)
    /\ explanation' = "fallback_menu"
    /\ outcome' = "returned"
    /\ pc' = "gom_done"
    /\ UNCHANGED << catalog, result,
                    endpoint, request, user, selection, budget, daily_calories,
                    macro_targets, current_totals, api_key, ai_calls, reply,
                    adjusted_quantities, recommendation, exc, http >>

\* ------------------------------------------------------------------------
\* backend/fastapi_app.py: the handlers
\* ------------------------------------------------------------------------

Request(user_data, selected_meals, b) ==
    [user |-> user_data, selected_meals |-> selected_meals, budget |-> b]

\* a handler starts with fresh locals
FreshLocals ==
    /\ daily_calories' = 0
    /\ macro_targets' = NoTargets
    /\ current_totals' = NoTotals
    /\ ai_calls' = 0
    /\ reply' = NoReply
    /\ adjusted_quantities' = <<>>
    /\ explanation' = ""
    /\ recommendation' = NoRecommendation
    /\ menu' = NoMenu
    /\ outcome' = "none"
    /\ exc' = ""
    /\ result' = NoResult

\* POST /api/user/calculate: the whole handler.  ValueError from an enum is
\* answered with 400.
calculate_user_profile ==
    /\ pc = "idle"
    /\ \E user_data \in UserData :
        /\ request' = Request(user_data, <<>>, 0)
        /\ IF ValidUser(user_data)
           THEN /\ user' = user_data
                /\ daily_calories' = calculate_daily_calories(user_data)
                /\ macro_targets' =
                       get_macro_targets(user_data, calculate_daily_calories(user_data))
                /\ exc' = ""
                /\ http' = 200
           ELSE /\ user' = NoUser
                /\ daily_calories' = 0
                /\ macro_targets' = NoTargets
                /\ exc' = "ValueError"
                /\ http' = 400
    /\ endpoint' = "calculate_user_profile"
    /\ pc' = "responded"
    /\ selection' = NoSelection
    /\ budget' = 0
    /\ current_totals' = NoTotals
    /\ ai_calls' = 0
    /\ reply' = NoReply
    /\ adjusted_quantities' = <<>>
    /\ explanation' = ""
    /\ recommendation' = NoRecommendation
    /\ menu' = NoMenu
    /\ outcome' = "none"
    /\ result' = NoResult
    /\ UNCHANGED << api_key, catalog >>

\* POST /api/meals/recommend, up to its call of get_meal_recommendation: the
\* User and the MealSelection are built inside the handler's try
recommend_meals ==
    /\ pc = "idle"
    /\ \E user_data \in ReqUsers, selected_meals \in SeqsUpTo(MealData, MaxSel) :
        /\ request' = Request(user_data, selected_meals, 0)
        /\ FreshLocals
        /\ IF ValidUser(user_data)
           THEN /\ user' = user_data
                /\ selection' = recommend_meals_selection(selected_meals)
                /\ pc' = "gmr_14"
                /\ http' = 0
           ELSE /\ user' = NoUser
                /\ selection' = NoSelection
                /\ pc' = "responded"
                /\ http' = 500
        /\ catalog' = recommend_meals_catalog(selected_meals)
    /\ budget' = 0
    /\ endpoint' = "recommend_meals"
    /\ UNCHANGED api_key

\* recommend_meals after the call: return recommendation.model_dump(), or
\* except Exception: raise HTTPException(status_code=500)
recommend_meals_respond ==
    /\ pc = "gmr_done"
    /\ endpoint = "recommend_meals"
    /\ http' = IF outcome = "returned" THEN 200 ELSE 500
    /\ pc' = "responded"
    /\ UNCHANGED << catalog, result,
                    endpoint, request, user, selection, budget, daily_calories,
                    macro_targets, current_totals, api_key, ai_calls, reply,
                    adjusted_quantities, explanation, recommendation, menu, outcome, exc >>

\* POST /api/budget/optimize, up to its call of get_optimized_menu
optimize_budget_menu ==
    /\ pc = "idle"
    /\ \E user_data \in ReqUsers, b \in Budgets :
        /\ request' = Request(user_data, <<>>, b)
        /\ FreshLocals
        /\ IF ValidUser(user_data)
           THEN /\ user' = user_data
                /\ budget' = b
                /\ pc' = "gom_222"
                /\ http' = 0
           ELSE /\ user' = NoUser
                /\ budget' = 0
                /\ pc' = "responded"
                /\ http' = 500
    /\ selection' = NoSelection
    /\ endpoint' = "optimize_budget_menu"
    /\ UNCHANGED << api_key, catalog >>

\* optimize_budget_menu after the call
optimize_budget_menu_respond ==
    /\ pc = "gom_done"
    /\ endpoint = "optimize_budget_menu"
    /\ http' = IF outcome = "returned" THEN 200 ELSE 500
    /\ pc' = "responded"
    /\ UNCHANGED << catalog, result,
                    endpoint, request, user, selection, budget, daily_calories,
                    macro_targets, current_totals, api_key, ai_calls, reply,
                    adjusted_quantities, explanation, recommendation, menu, outcome, exc >>

\* POST /api/daily/recommend, up to its call of get_meal_recommendation; with
\* no meal found it returns {"error": "No meals selected"}
recommend_daily_meals ==
    /\ pc = "idle"
    /\ \E user_data \in ReqUsers, daily_meals \in DailyMeals :
        /\ request' = [user |-> user_data, daily_meals |-> daily_meals]
        /\ FreshLocals
        /\ IF ~ValidUser(user_data)
           THEN /\ user' = NoUser
                /\ selection' = NoSelection
                /\ pc' = "responded"
                /\ http' = 500
           ELSE /\ user' = user_data
                /\ selection' = recommend_daily_meals_selection(daily_meals)
                /\ IF recommend_daily_meals_selection(daily_meals).meals # <<>>
                   THEN /\ pc' = "gmr_14"
                        /\ http' = 0
                   ELSE /\ pc' = "responded"
                        /\ http' = 200
    /\ budget' = 0
    /\ endpoint' = "recommend_daily_meals"
    /\ UNCHANGED << api_key, catalog >>

\* recommend_daily_meals after the call
recommend_daily_meals_respond ==
    /\ pc = "gmr_done"
    /\ endpoint = "recommend_daily_meals"
    /\ http' = IF outcome = "returned" THEN 200 ELSE 500
    /\ pc' = "responded"
    /\ UNCHANGED << catalog, result,
                    endpoint, request, user, selection, budget, daily_calories,
                    macro_targets, current_totals, api_key, ai_calls, reply,
                    adjusted_quantities, explanation, recommendation, menu, outcome, exc >>

\* the keys of the categories dict of get_meals
Categories == {"carb", "protein", "good_fat", "fiber"}

\* GET /api/meals: the model_dump() of every catalog meal, grouped by
\* component_type
get_meals ==
    /\ pc = "idle"
    /\ request' = [kind |-> "get_meals"]
    /\ result' = [kind |-> "categories",
                  categories |->
                      [c \in Categories |->
                          SelectSeq(catalog, LAMBDA meal : meal.component_type = c)]]
    /\ endpoint' = "get_meals"
    /\ pc' = "responded"
    /\ http' = 200
    /\ UNCHANGED << catalog, user, selection, budget, daily_calories, macro_targets,
                    current_totals, api_key, ai_calls, reply, adjusted_quantities,
                    explanation, recommendation, menu, outcome, exc >>

\* the locals of calculate_order before its loop: the totals at 0, the list of
\* processed meals empty, and calories .. cost not yet bound
OrderStart ==
    [raised |-> FALSE, bound |-> FALSE,
     last |-> [calories |-> 0, protein |-> 0, carbs |-> 0, fat |-> 0, cost |-> 0],
     total |-> [calories |-> 0, protein |-> 0, carbs |-> 0, fat |-> 0, cost |-> 0],
     processed_meals |-> <<>>]

\* one round of the loop of calculate_order.  Nutrition is in 1/2000 of a unit
\* and cost in 1/200 VND: a base value times quantity / 100 is value * q, a
\* cooking-method value times quantity is value * q * 100 (q in half grams).
\* With a cooking method the meal does not have, calories .. cost keep the
\* values of the round before (UnboundLocalError when there was none) and are
\* added to the totals again.
OrderRound(st, meal_data) ==
    LET i == FindMeal(meal_data.name)
        meal == catalog[i]
        quantity == meal_data.quantity
        j == FindMethod(meal, meal_data.cooking_method)
        method == meal.cooking_methods[j]
        of_method == [calories |-> method.calories * quantity * 100,
                      protein |-> method.protein * quantity * 100,
                      carbs |-> method.carbs * quantity * 100,
                      fat |-> method.fat * quantity * 100,
                      cost |-> method.price * quantity * 100]
        of_base == [calories |-> meal.calories * quantity,
                    protein |-> meal.protein * quantity,
                    carbs |-> meal.carbs * quantity,
                    fat |-> meal.fat * quantity,
                    cost |-> meal.price * quantity]
        assigned == meal_data.cooking_method = "" \/ j # 0
        now == IF meal_data.cooking_method = "" THEN of_base
               ELSE IF j # 0 THEN of_method
               ELSE st.last
        label == IF meal_data.cooking_method = "" THEN << meal.name, "g", quantity >>
                 ELSE << meal.name, method.method >>
    IN  IF st.raised \/ i = 0 THEN st
        ELSE IF ~assigned /\ ~st.bound THEN [st EXCEPT !.raised = TRUE]
        ELSE [raised |-> FALSE, bound |-> TRUE, last |-> now,
              total |-> [k \in DOMAIN st.total |-> st.total[k] + now[k]],
              processed_meals |->
                  IF assigned
                  THEN Append(st.processed_meals,
                              [name |-> label, quantity |-> quantity,
                               calories |-> now.calories, protein |-> now.protein,
                               carbs |-> now.carbs, fat |-> now.fat, cost |-> now.cost])
                  ELSE st.processed_meals]

RECURSIVE OrderLoop(_)
\* the loop of calculate_order over meals
OrderLoop(meals) ==
    IF meals = <<>> THEN OrderStart
    ELSE OrderRound(OrderLoop(SubSeq(meals, 1, Len(meals) - 1)), meals[Len(meals)])

\* OrderSummary(...)
OrderSummary(st) ==
    [kind |-> "OrderSummary", meals |-> st.processed_meals,
     total_calories |-> st.total.calories, total_protein |-> st.total.protein,
     total_carbs |-> st.total.carbs, total_fat |-> st.total.fat,
     total_cost |-> st.total.cost]

\* POST /api/order/calculate: the whole handler; an exception is answered 400
calculate_order ==
    /\ pc = "idle"
    /\ \E meals \in SeqsUpTo(MealData, MaxSel) :
        /\ request' = [meals |-> meals]
        /\ IF OrderLoop(meals).raised
           THEN /\ result' = NoResult
                /\ exc' = "UnboundLocalError"
                /\ http' = 400
           ELSE /\ result' = OrderSummary(OrderLoop(meals))
                /\ exc' = ""
                /\ http' = 200
    /\ endpoint' = "calculate_order"
    /\ pc' = "responded"
    /\ UNCHANGED << catalog, user, selection, budget, daily_calories, macro_targets,
                    current_totals, api_key, ai_calls, reply, adjusted_quantities,
                    explanation, recommendation, menu, outcome >>

\* ------------------------------------------------------------------------
\* The program: requests served one at a time
\* ------------------------------------------------------------------------

\* the server between two requests: everything but the environment is
\* request-scoped
Idle ==
    /\ pc = "idle"
    /\ endpoint = ""
    /\ request = Request(NoUser, <<>>, 0)
    /\ user = NoUser
    /\ selection = NoSelection
    /\ budget = 0
    /\ daily_calories = 0
    /\ macro_targets = NoTargets
    /\ current_totals = NoTotals
    /\ ai_calls = 0
    /\ reply = NoReply
    /\ adjusted_quantities = <<>>
    /\ explanation = ""
    /\ recommendation = NoRecommendation
    /\ menu = NoMenu
    /\ outcome = "none"
    /\ exc = ""
    /\ result = NoResult
    /\ http = 0

Init ==
    /\ catalog = SAMPLE_MEALS
    /\ Idle
    /\ api_key \in BOOLEAN

\* the response is sent and the request's objects are discarded
next_request ==
    /\ pc = "responded"
    /\ pc' = "idle"
    /\ endpoint' = ""
    /\ request' = Request(NoUser, <<>>, 0)
    /\ user' = NoUser
    /\ selection' = NoSelection
    /\ budget' = 0
    /\ FreshLocals
    /\ http' = 0
    /\ UNCHANGED << api_key, catalog >>

Next ==
    \/ calculate_user_profile
    \/ recommend_meals
    \/ gmr_targets
    \/ gmr_current_totals
    \/ gmr_prompt
    \/ recommend_meals_respond
    \/ optimize_budget_menu
    \/ gom_targets
    \/ gom_meals_str
    \/ optimize_budget_menu_respond
    \/ recommend_daily_meals
    \/ recommend_daily_meals_respond
    \/ get_meals
    \/ calculate_order
    \/ next_request

Spec == Init /\ [][Next]_vars


\* ------------------------------------------------------------------------
\* The try statement of get_meal_recommendation, as a unit: every state in
\* which control can stand before "try:" (a user, the selection a handler
\* built, the targets and the current totals computed from them, the
\* credential set or not), then the rest of the request.
\* ------------------------------------------------------------------------

TryMealData ==
    [name : {"Gao lut", "Trung ga"}, cooking_method : {"", "fried"}, quantity : {75, 200}]
    \cup {[name |-> "Pho", cooking_method |-> "", quantity |-> 200]}

InitTry ==
    /\ catalog = SAMPLE_MEALS
    /\ \E user_data \in {u \in ReqUsers : ValidUser(u)},
          selected_meals \in SeqsUpTo(TryMealData, MaxSel) :
        /\ request = Request(user_data, selected_meals, 0)
        /\ user = user_data
        /\ selection = recommend_meals_selection(selected_meals)
        /\ daily_calories = calculate_daily_calories(user_data)
        /\ macro_targets = get_macro_targets(user_data, calculate_daily_calories(user_data))
        /\ current_totals = current(recommend_meals_selection(selected_meals))
    /\ pc = "gmr_115"
    /\ endpoint = "recommend_meals"
    /\ budget = 0
    /\ api_key \in BOOLEAN
    /\ ai_calls = 0
    /\ reply = NoReply
    /\ adjusted_quantities = <<>>
    /\ explanation = ""
    /\ recommendation = NoRecommendation
    /\ menu = NoMenu
    /\ outcome = "none"
    /\ exc = ""
    /\ result = NoResult
    /\ http = 0

NextTry ==
    \/ gmr_getenv
    \/ gmr_generate_content
    \/ gmr_parse
    \/ gmr_scaling_fallback
    \/ gmr_return
    \/ recommend_meals_respond

SpecTry == InitTry /\ [][NextTry]_vars

\* ------------------------------------------------------------------------
\* The try statement of get_optimized_menu, as a unit: every state in which
\* control can stand before "try:", then the rest of the request.
\* ------------------------------------------------------------------------

\* the requests: the profile with goal "gain" with every budget, the other
\* two profiles with one budget each
TryMenuData ==
    {t \in {u \in ReqUsers : ValidUser(u)} \X Budgets :
        /\ t[1].goal = "maintain" => t[2] = 5000000
        /\ t[1].goal = "lose" => t[2] = 20000000}

InitMenuTry ==
    /\ catalog = SAMPLE_MEALS
    /\ \E user_data \in {u \in ReqUsers : ValidUser(u)}, b \in Budgets :
        /\ << user_data, b >> \in TryMenuData
        /\ request = Request(user_data, <<>>, b)
        /\ user = user_data
        /\ budget = b
        /\ daily_calories = calculate_daily_calories(user_data)
        /\ macro_targets = get_macro_targets(user_data, calculate_daily_calories(user_data))
    /\ pc = "gom_273"
    /\ endpoint = "optimize_budget_menu"
    /\ selection = NoSelection
    /\ current_totals = NoTotals
    /\ api_key \in BOOLEAN
    /\ ai_calls = 0
    /\ reply = NoReply
    /\ adjusted_quantities = <<>>
    /\ explanation = ""
    /\ recommendation = NoRecommendation
    /\ menu = NoMenu
    /\ outcome = "none"
    /\ exc = ""
    /\ result = NoResult
    /\ http = 0

NextMenuTry ==
    \/ gom_getenv
    \/ gom_generate_content
    \/ gom_build
    \/ gom_fallback
    \/ optimize_budget_menu_respond

SpecMenuTry == InitMenuTry /\ [][NextMenuTry]_vars

\* ------------------------------------------------------------------------
\* The program together with its two try statements: the requests of Spec, and
\* the executions of the try statements of get_meal_recommendation and
\* get_optimized_menu from every state before them, each followed by further
\* requests.
\* ------------------------------------------------------------------------

InitParts == Init \/ InitTry \/ InitMenuTry

NextParts == Next \/ NextTry \/ NextMenuTry

SpecParts == InitParts /\ [][NextParts]_vars


\* ------------------------------------------------------------------------
\* Properties
\* ------------------------------------------------------------------------

\* get_meal_recommendation has finished for the request in progress
RecFinished == endpoint = "recommend_meals" /\ pc \in {"gmr_done", "responded"}

\* adjusted_quantities holds the final list of the request in progress
Adjusted == endpoint = "recommend_meals" /\ pc \in {"gmr_167", "gmr_done", "responded"}

\* the targets of the request in progress have been computed (a daily request
\* without catalog meals is answered without computing them)
TargetsComputed ==
    /\ user # NoUser
    /\ pc \notin {"gmr_14", "gom_222"}
    /\ ~(endpoint = "recommend_daily_meals" /\ pc = "responded" /\ outcome = "none")

\* k is round(n / d), d > 0: within one half of n / d, and even at a tie
IsRound(k, n, d) ==
    LET e == 2 * (k * d - n)
    IN  \/ (-d < e /\ e < d)
        \/ ((e = d \/ e = -d) /\ k % 2 = 0)

\* a (half grams) is max(25 g, 25 g * round(n / d)): a multiple of 25 g that is
\* 25 g exactly when n / d rounds to 1 or less (n / d < 1.5), and 25 g * round(n / d)
\* above that
IsSnapped(a, n, d) ==
    /\ a % 50 = 0
    /\ a >= 50
    /\ a = 50 <=> 2 * n < 3 * d
    /\ a > 50 => IsRound(a \div 50, n, d)

\* C1: get_meal_recommendation returns a Recommendation and never raises, for
\* every profile, selection and outcome of the AI step; the recommendation
\* endpoint therefore never answers 500 because of the recommendation step.
C1_RecommendationNeverRaises ==
    (RecFinished /\ user # NoUser)
        => (outcome = "returned" /\ (pc = "responded" => http = 200))

\* C2: get_optimized_menu returns a Menu and never raises, for every profile,
\* budget and outcome of the AI step: on any failure the static fallback menu
\* is returned.
C2_MenuNeverRaises ==
    (endpoint = "optimize_budget_menu" /\ pc \in {"gom_done", "responded"} /\ user # NoUser)
        => (outcome = "returned" /\ (pc = "responded" => http = 200))

C4_GridAligned ==
    (RecFinished /\ outcome = "returned")
        => \A i \in 1..Len(recommendation.adjusted_quantities) :
              /\ recommendation.adjusted_quantities[i] >= 50
              /\ recommendation.adjusted_quantities[i] % 50 = 0

\* C4 witness: a Recommendation returned on the success path for a reply that
\* holds a negative quantity
C4_Witness ==
    /\ RecFinished
    /\ outcome = "returned"
    /\ explanation = "text"
    /\ reply.keys # {}
    /\ \E i \in 1..Len(raw_grams_items(reply, selection)) :
          raw_grams_items(reply, selection)[i] = Num(-60)
    /\ Len(recommendation.adjusted_quantities) = Len(raw_grams_items(reply, selection))

\* The daily calorie target as C5 states it, in 1/100000 kcal:
\* BMR = 10*weight + 6.25*height - 5*age + 5 (male) or - 161, times the
\* activity multiplier, minus 500 (lose), plus 500 (gain)
StatedTarget(gender, height, weight, age, activity, goal) ==
    LET bmr == 1000 * weight + 625 * height - 500 * age
                   + (IF gender = "male" THEN 500 ELSE -16100)
        mult == CASE activity = "sedentary" -> 1200
                  [] activity = "light" -> 1375
                  [] activity = "moderate" -> 1550
                  [] activity = "active" -> 1725
        tdee == bmr * mult
    IN  CASE goal = "lose" -> tdee - 50000000
          [] goal = "gain" -> tdee + 50000000
          [] goal = "maintain" -> tdee

\* C5: the daily calorie target is the stated function of (gender, height,
\* weight, age, activity, goal) alone (daily_calories is in 1/160 kcal:
\* times 625 it is in 1/100000 kcal).
C5_DailyCalories ==
    TargetsComputed
        => daily_calories * 625 =
               StatedTarget(user.gender, user.height, user.weight, user.age,
                            user.activity, user.goal)

\* C5 witness: the profile endpoint answered for a female, active, lose profile
C5_Witness ==
    /\ endpoint = "calculate_user_profile"
    /\ http = 200
    /\ user.gender = "female"
    /\ user.activity = "active"
    /\ user.goal = "lose"
    /\ daily_calories # 0

\* the profile of the worked example: male, 25 years, 170 cm, 70 kg, moderate,
\* maintain
ExampleProfile ==
    /\ TargetsComputed
    /\ user.gender = "male"
    /\ user.age = 25
    /\ user.height = 170
    /\ user.weight = 70
    /\ user.activity = "moderate"
    /\ user.goal = "maintain"

\* C6 as stated: for the example profile calculate_bmr gives 1673.75 (6695
\* quarters), calculate_tdee 2594.3125 (415090 in 1/160) and the daily calorie
\* target is 2594.3125.
C6_StatedExample ==
    ExampleProfile
        => /\ calculate_bmr(user) = 6695
           /\ calculate_tdee(user, calculate_bmr(user)) = 415090
           /\ daily_calories = 415090

\* C6 amended: for the example profile calculate_bmr gives 1642.5 (6570
\* quarters), calculate_tdee 2545.875 (407340 in 1/160) and the daily calorie
\* target is 2545.875.
C6_Example ==
    ExampleProfile
        => /\ calculate_bmr(user) = 6570
           /\ calculate_tdee(user, calculate_bmr(user)) = 407340
           /\ daily_calories = 407340

\* C6 witness: the profile endpoint answered for the example profile
C6_Witness ==
    /\ ExampleProfile
    /\ endpoint = "calculate_user_profile"
    /\ http = 200

C8_ScalingFallback ==
    (Adjusted /\ reply.kind = "call_error")
        => /\ Len(adjusted_quantities) = Len(selection.quantities)
           /\ \A i \in 1..Len(adjusted_quantities) :
                 IsSnapped(adjusted_quantities[i],
                           selection.quantities[i] * get_daily_calories(user),
                           4 * max(current(selection).calories, 2000))

\* C8 witness: a Recommendation returned after a failed call, for a selection
\* of more than 1 kcal, with a quantity that scaling moved to another grid point
C8_Witness ==
    /\ RecFinished
    /\ outcome = "returned"
    /\ reply.kind = "call_error"
    /\ current_totals.calories > 2000
    /\ \E i \in 1..Len(adjusted_quantities) :
          /\ adjusted_quantities[i] > 50
          /\ adjusted_quantities[i] # rounded_current_quantities(selection)[i]

\* the reply came back and cannot be parsed or used: not JSON, not an object,
\* or an object whose quantity array holds a non-numeric element
Unparseable ==
    \/ reply.kind \in {"not_json", "not_object"}
    \/ /\ reply.kind = "object"
       /\ reply.keys # {}
       /\ \E i \in 1..Len(raw_grams_items(reply, selection)) :
             ~raw_grams_items(reply, selection)[i].numeric

\* C9: when the reply cannot be parsed or used, the adjusted quantities are the
\* input quantities each rounded to the 25 g grid with minimum 25 g, whatever
\* the calorie target; the scaling fallback is not applied.
C9_ParseFallback ==
    (Adjusted /\ Unparseable)
        => /\ Len(adjusted_quantities) = Len(selection.quantities)
           /\ \A i \in 1..Len(adjusted_quantities) :
                 IsSnapped(adjusted_quantities[i], selection.quantities[i], 50)
           /\ explanation = "unable_to_parse"

\* C9 witness: a Recommendation returned for a reply with a non-numeric element,
\* where the scaling fallback would have given other quantities, one of the
\* inputs being a tie (37.5 g)
C9_Witness ==
    /\ RecFinished
    /\ outcome = "returned"
    /\ reply.kind = "object"
    /\ Unparseable
    /\ \E i \in 1..Len(selection.quantities) : selection.quantities[i] = 75
    /\ adjusted_quantities #
           scaled_quantities(selection, daily_calories, current_totals.calories)

\* C10: without GEMINI_API_KEY neither operation invokes the AI endpoint, and
\* each produces its fallback result: the uniform scaling fallback for the
\* recommendation, the static fallback menu for the menu.
C10_NoCredentialFallback ==
    (~api_key /\ pc \in {"gmr_done", "gom_done"})
        => /\ ai_calls = 0
           /\ outcome = "returned"
           /\ endpoint = "recommend_meals" =>
                 /\ explanation = "simple_scaling"
                 /\ recommendation.adjusted_quantities =
                        scaled_quantities(selection, daily_calories,
                                          current_totals.calories)
           /\ endpoint = "optimize_budget_menu" =>
                 menu = create_fallback_menu(user, budget, daily_calories)

\* the selection with the adjusted quantities in place of the input quantities
AdjustedSelection == [meals |-> selection.meals, quantities |-> adjusted_quantities]

\* C11: the totals get_meal_recommendation returns are those of the adjusted
\* quantities under the per-100g rule of the current totals (the sum of per-100g
\* value * adjusted quantity / 100 over the paired meals); when the adjusted
\* quantities equal the input quantities, they are the current totals.
C11_TotalsRecomputed ==
    (RecFinished /\ outcome = "returned")
        => /\ recommendation.total_calories = current(AdjustedSelection).calories
           /\ recommendation.total_protein = current(AdjustedSelection).protein
           /\ recommendation.total_carbs = current(AdjustedSelection).carbs
           /\ recommendation.total_fat = current(AdjustedSelection).fat
           /\ adjusted_quantities = selection.quantities =>
                 /\ recommendation.total_calories = current_totals.calories
                 /\ recommendation.total_protein = current_totals.protein
                 /\ recommendation.total_carbs = current_totals.carbs
                 /\ recommendation.total_fat = current_totals.fat

\* C11 witness: a Recommendation returned for a catalog meal taken without a
\* cooking method (its first method's values apply), with the quantities moved
C11_Witness ==
    /\ RecFinished
    /\ outcome = "returned"
    /\ Len(selection.meals) = Len(adjusted_quantities)
    /\ adjusted_quantities # selection.quantities
    /\ \E i \in 1..Len(selection.meals) :
          selection.meals[i].calories # selection.meals[i].cooking_methods[1].calories
    /\ recommendation.total_calories > 0
    /\ recommendation.total_calories # current_totals.calories

\* the state in which get_optimized_menu has returned from its try statement
MenuReturned == endpoint = "optimize_budget_menu" /\ pc = "gom_done" /\ outcome = "returned"

\* the entries of reply r, the three meal times one after the other
Entries(r) == r.breakfast \o r.lunch \o r.dinner

\* whether entry meal_data names a catalog meal, in whatever letter case
MatchesCatalog(meal_data) == FindMealLower(meal_data.name) # 0

\* reply r with the nutrition and price numbers of its catalog-matching
\* entries replaced: entry i of Entries(r) gets the numbers f[i]
Renumbered(r, f) ==
    LET renumber(entries, offset) ==
            [i \in 1..Len(entries) |->
                IF MatchesCatalog(entries[i])
                THEN [entries[i] EXCEPT !.ai = f[offset + i]]
                ELSE entries[i]]
    IN  [r EXCEPT !.breakfast = renumber(r.breakfast, 0),
                  !.lunch = renumber(r.lunch, Len(r.breakfast)),
                  !.dinner = renumber(r.dinner, Len(r.breakfast) + Len(r.lunch))]

\* C12: for a menu entry of the AI whose name matches a catalog meal in any
\* letter case, the meal create_meal_from_response builds (calories, protein,
\* carbs, fat, price) is the same whatever nutrition and price numbers the entry
\* carries; and a reply that differs from the one received only in those
\* numbers yields the same menu and totals: it raises exactly when the received
\* one does (the fallback menu, which is no function of the reply) and
\* otherwise builds the menu that was returned.
C12_AiNumbersIgnored ==
    (MenuReturned /\ reply.kind = "object")
        => /\ \A i \in 1..Len(Entries(reply)) : \A n \in AiNumbers :
                 MatchesCatalog(Entries(reply)[i])
                     => create_meal_from_response([Entries(reply)[i] EXCEPT !.ai = n])
                            = create_meal_from_response(Entries(reply)[i])
           /\ \A f \in [1..Len(Entries(reply)) -> AiNumbers] :
                 /\ try_raises(Renumbered(reply, f)) = try_raises(reply)
                 /\ try_raises(reply) => menu.explanation = "fallback_menu"
                 /\ ~try_raises(reply)
                        => menu = Menu(meals_of(MealsFromResponse(Renumbered(reply, f).breakfast)),
                                       meals_of(MealsFromResponse(Renumbered(reply, f).lunch)),
                                       meals_of(MealsFromResponse(Renumbered(reply, f).dinner)),
                                       explanation)

\* a returned menu for a reply with a catalog meal in another letter case and a
\* cooking method in another letter case, whose built meal has the calories of
\* the catalog's method and not those the entry carries
C12_Witness ==
    /\ MenuReturned
    /\ reply.kind = "object"
    /\ \E i \in 1..Len(Entries(reply)) :
          LET e == Entries(reply)[i]
              created == create_meal_from_response(e)
          IN  /\ MatchesCatalog(e)
              /\ e.name # catalog[FindMealLower(e.name)].name
              /\ e.method = "Grilled"
              /\ created.built
              /\ created.meal.calories
                     = catalog[FindMealLower(e.name)].cooking_methods[1].calories * 900
              /\ created.meal.calories # e.ai.calories * 900

\* the meal an entry without catalog meal stands for: the numbers of the reply,
\* scaled from 100 g to the rounded grams
CarriesAiNumbers(meal, meal_data) ==
    LET rounded_grams == max(50, round(meal_data.grams.value, 50) * 50)
    IN  /\ meal.name = meal_data.name
        /\ meal.calories = meal_data.ai.calories * rounded_grams
        /\ meal.protein = meal_data.ai.protein * rounded_grams
        /\ meal.carbs = meal_data.ai.carbs * rounded_grams
        /\ meal.fat = meal_data.ai.fat * rounded_grams
        /\ meal.price = meal_data.ai.price * rounded_grams

\* the entries of meal time entries without catalog meal are in meals, at their
\* positions, with the numbers of the reply
KeepsUnknown(meals, entries) ==
    /\ Len(meals) = Len(entries)
    /\ \A i \in 1..Len(entries) :
          ~MatchesCatalog(entries[i]) => CarriesAiNumbers(meals[i], entries[i])

all_meals == menu.breakfast \o menu.lunch \o menu.dinner

\* the state in which get_optimized_menu has returned on its success path
MenuSucceeded == MenuReturned /\ explanation # "fallback_menu"

\* C14: on the success path of get_optimized_menu, total_cost is the sum of the
\* prices of the meals of breakfast, lunch and dinner and total_calories the sum
\* of their calories, whatever totals the reply carries.
C14_TotalsAreSums ==
    MenuSucceeded
        => /\ menu.total_cost =
                 float(SumTo([i \in 1..Len(all_meals) |-> all_meals[i].price],
                             Len(all_meals)), 200)
           /\ menu.total_calories =
                 float(SumTo([i \in 1..Len(all_meals) |-> all_meals[i].calories],
                             Len(all_meals)), 2000)

\* a menu returned on the success path for a reply that carries totals of its
\* own, which are not those of the menu
C14_Witness ==
    /\ MenuSucceeded
    /\ reply.has_totals
    /\ menu.total_cost # float(AiTotals.total_cost, 1)
    /\ menu.total_calories # float(AiTotals.total_calories, 1)

FallbackReturned == MenuReturned /\ explanation = "fallback_menu"

\* x and y are the same float or neighbours: they differ by at most one unit in
\* the last place
WithinOneUlp(x, y) == x = y \/ x = float_next(y) \/ y = float_next(x)

\* the fallback menu has one meal of the catalog in each meal time
OneCatalogMealEach ==
    /\ Len(menu.breakfast) = 1
    /\ Len(menu.lunch) = 1
    /\ Len(menu.dinner) = 1
    /\ \A i \in 1..Len(all_meals) : \E k \in 1..Len(catalog) : all_meals[i] = catalog[k]

\* C16 (amended): the fallback menu has exactly one catalog meal in each of
\* breakfast, lunch and dinner, and its total_cost and total_calories are the
\* budget and the daily calorie target up to the rounding of the float sums:
\* each is the float of the budget (of the target) or one of its two
\* neighbours, whatever the prices and calories of the three meals.
C16_FallbackTotals ==
    FallbackReturned
        => /\ OneCatalogMealEach
           /\ WithinOneUlp(menu.total_cost, float(budget, 100))
           /\ WithinOneUlp(menu.total_calories, float(daily_calories, 160))

\* C16 as stated: total_cost equals the budget and total_calories equals the
\* daily calorie target
C16_FallbackTotalsExact ==
    FallbackReturned
        => /\ OneCatalogMealEach
           /\ menu.total_cost = float(budget, 100)
           /\ menu.total_calories = float(daily_calories, 160)

\* a returned fallback menu whose totals are not the sums of the prices and
\* calories of its three meals, with a total_cost that is the budget exactly
\* and a total_calories that is not the target exactly
C16_Witness ==
    /\ FallbackReturned
    /\ menu.total_cost = float(budget, 100)
    /\ menu.total_calories # float(daily_calories, 160)
    /\ menu.total_cost #
           float(SumTo([i \in 1..Len(all_meals) |-> all_meals[i].price], Len(all_meals)), 1)

\* C17: every MealSelection recommend_meals or recommend_daily_meals passes to
\* get_meal_recommendation has as many meals as quantities.
C17_SelectionAligned ==
    (endpoint \in {"recommend_meals", "recommend_daily_meals"} /\ pc = "gmr_14")
        => Len(selection.meals) = Len(selection.quantities)

\* C18: no operation changes the catalog: after any sequence of catalog
\* listings, profile calculations, recommendations, menu optimizations (success
\* or fallback) and order calculations every entry of SAMPLE_MEALS has its
\* initial name, nutrition, price and cooking methods.
C18_CatalogUnchanged == catalog = SAMPLE_MEALS

\* a recommendation answered for a selection holding a Meal that recommend_meals
\* built from a catalog meal and one of its cooking methods, the catalog meal
\* being as it was
C18_Witness ==
    /\ endpoint = "recommend_meals"
    /\ pc = "responded"
    /\ http = 200
    /\ \E i \in 1..Len(selection.meals) : \E k \in 1..Len(catalog) :
          /\ Len(catalog[k].cooking_methods) > 1
          /\ selection.meals[i] = ProcessedMeal(catalog[k], catalog[k].cooking_methods[2])
          /\ catalog[k] = SAMPLE_MEALS[k]
          /\ catalog[k] # selection.meals[i]

\* the replies after which the operations take a fallback: a call that raised,
\* a response without text, a text that is no JSON, JSON that is no object
Unusable == {"call_error", "no_text", "not_json", "not_object"}

\* C19: within one invocation of get_meal_recommendation or get_optimized_menu
\* the AI endpoint is invoked at most once (never without credential); after a
\* failed call or an unusable reply the operation has completed with its
\* fallback result and that single invocation.
C19_AtMostOneCall ==
    /\ ai_calls <= 1
    /\ ~api_key => ai_calls = 0
    /\ (pc \in {"gmr_done", "gom_done"} /\ reply.kind \in Unusable)
           => /\ ai_calls = 1
              /\ outcome = "returned"
              /\ explanation \in {"simple_scaling", "unable_to_parse", "fallback_menu"}

\* get_optimized_menu completed with the fallback menu after a call of the AI
\* endpoint that raised, the endpoint having been invoked once
C19_Witness ==
    /\ pc = "gom_done"
    /\ reply.kind = "call_error"
    /\ ai_calls = 1
    /\ explanation = "fallback_menu"
    /\ outcome = "returned"

RECURSIVE GramsOf(_, _)
\* the gram amounts the request gives for the first n meals of meal time mt
\* that are catalog meals (100 g for a meal without quantity), in half grams
GramsOf(mt, n) ==
    IF n = 0 THEN <<>>
    ELSE IF FindMeal(mt.meals[n]) = 0 THEN GramsOf(mt, n - 1)
    ELSE Append(GramsOf(mt, n - 1),
                IF n <= Len(mt.quantities) THEN mt.quantities[n] ELSE 200)

\* C20: every quantity recommend_daily_meals places in the selection it hands
\* to get_meal_recommendation is the gram amount of its meal, with or without a
\* cooking method.
C20_DailyQuantitiesInGrams ==
    (endpoint = "recommend_daily_meals" /\ pc = "gmr_14")
        => selection.quantities =
               GramsOf(request.daily_meals.breakfast,
                       Len(request.daily_meals.breakfast.meals))
               \o GramsOf(request.daily_meals.lunch, Len(request.daily_meals.lunch.meals))
               \o GramsOf(request.daily_meals.dinner, Len(request.daily_meals.dinner.meals))

\* the per-100g record of a meal of the selection as the handlers chose it: for
\* a Meal built for a selected cooking method the values and the price of that
\* method, for a catalog meal passed as it is its base values and base price
selected_per_100g(meal) ==
    IF \E k \in 1..Len(catalog) : meal = catalog[k]
    THEN [calories |-> meal.calories, protein |-> meal.protein, carbs |-> meal.carbs,
          fat |-> meal.fat, price |-> meal.price]
    ELSE LET method == meal.cooking_methods[1]
         IN  [calories |-> method.calories, protein |-> method.protein,
              carbs |-> method.carbs, fat |-> method.fat, price |-> method.price]

\* C21: in get_meal_recommendation the nutrition and the cost of each meal are
\* scaled by quantity / 100 from one per-100g record, the selected cooking
\* method's when a method is selected and the meal's base values otherwise, so
\* that the current totals are the sums of these; a catalog meal passed without
\* a method contributes its base calories, macros and base price.
C21_SameRecord ==
    (endpoint \in {"recommend_meals", "recommend_daily_meals"} /\ pc = "gmr_62")
        => LET n == ZipLen(selection.meals, selection.quantities)
               v(i) == selected_per_100g(selection.meals[i])
               q(i) == selection.quantities[i]
           IN  /\ current_totals.calories = SumTo([i \in 1..n |-> v(i).calories * q(i)], n)
               /\ current_totals.protein = SumTo([i \in 1..n |-> v(i).protein * q(i)], n)
               /\ current_totals.carbs = SumTo([i \in 1..n |-> v(i).carbs * q(i)], n)
               /\ current_totals.fat = SumTo([i \in 1..n |-> v(i).fat * q(i)], n)
               /\ current_totals.cost = SumTo([i \in 1..n |-> v(i).price * q(i)], n)

\* m (half grams) is a multiple of 25 g nearest to x: no other multiple of 25 g
\* is strictly closer
NearestMultiple(m, x) ==
    /\ m % 50 = 0
    /\ \A k \in -4..20 :
          LET d == 50 * k - x
              e == m - x
          IN  (IF d < 0 THEN -d ELSE d) >= (IF e < 0 THEN -e ELSE e)

\* what the snapping may make of x: a multiple of 25 g nearest to x (one of the
\* two multiples x lies between), raised to 25 g when it is below
Snapped(x) ==
    {IF m < 50 THEN 50 ELSE m :
        m \in {n \in {50 * (x \div 50), 50 * (x \div 50) + 50} : NearestMultiple(n, x)}}

\* C22: every quantity x of the AI's array is replaced by a multiple of 25
\* nearest to x, raised to 25 when that is below 25; and the gram amount of a
\* menu entry is snapped the same way in the Meal create_meal_from_response
\* builds from it (its values are the per-100g values times the snapped amount).
C22_NearestMultiple ==
    /\ (Adjusted /\ reply.kind = "object" /\ reply.keys # {}
        /\ explanation \notin {"unable_to_parse", "simple_scaling"})
           => /\ Len(adjusted_quantities) = Len(raw_grams_items(reply, selection))
              /\ \A i \in 1..Len(adjusted_quantities) :
                    adjusted_quantities[i]
                        \in Snapped(raw_grams_items(reply, selection)[i].value)
    /\ (endpoint = "optimize_budget_menu" /\ pc \in {"gom_318", "gom_done"}
        /\ reply.kind = "object")
           => \A i \in 1..Len(Entries(reply)) :
                 LET e == Entries(reply)[i]
                     created == create_meal_from_response(e)
                     v == menu_per_100g(e)
                 IN  e.grams.numeric
                         => /\ created.built
                            /\ \E a \in Snapped(e.grams.value) :
                                  /\ created.meal.calories = v.calories * a
                                  /\ created.meal.price = v.price * a
                                  /\ e.method # ""
                                        => created.meal.cooking_methods[1].grams = a

\* a reply whose array holds 445 and -30: 445 has become 450 and -30 has
\* become 25
C22_Witness ==
    /\ Adjusted
    /\ reply.kind = "object"
    /\ reply.keys = {"adjusted_grams"}
    /\ explanation \notin {"unable_to_parse", "simple_scaling"}
    /\ reply.adjusted_grams = << Num(890), Num(-60) >>
    /\ adjusted_quantities[1] = 900
    /\ adjusted_quantities[2] = 50

\* the inner try block of get_meal_recommendation ran to its end for the reply
\* received
Parsed ==
    /\ Adjusted
    /\ reply.kind = "object"
    /\ explanation \notin {"unable_to_parse", "simple_scaling"}

\* the adjusted quantities are the elements of array, each snapped to the grid
SnappedFrom(array) ==
    /\ Len(adjusted_quantities) = Len(array)
    /\ \A i \in 1..Len(array) : adjusted_quantities[i] \in Snapped(array[i])

\* the plain numbers of an array of the reply
Values(array) == [i \in 1..Len(array) |-> array[i].value]

\* C23: from a parsed reply the quantities are taken from "adjusted_grams" when
\* the reply has that key, otherwise from "adjusted_quantities", otherwise from
\* the input quantities; a reply with neither key yields the input quantities
\* snapped to the grid, with the reply's explanation or the default one.
C23_KeyPrecedence ==
    Parsed
        => /\ "adjusted_grams" \in reply.keys
                 => SnappedFrom(Values(reply.adjusted_grams))
           /\ ("adjusted_grams" \notin reply.keys /\ "adjusted_quantities" \in reply.keys)
                 => SnappedFrom(Values(reply.adjusted_quantities))
           /\ reply.keys = {}
                 => /\ SnappedFrom(selection.quantities)
                    /\ explanation = IF reply.expl = "absent" THEN "default" ELSE reply.expl
                    /\ (RecFinished /\ reply.expl # "number")
                           => /\ outcome = "returned"
                              /\ recommendation.adjusted_quantities = adjusted_quantities
                              /\ recommendation.explanation = explanation

\* a Recommendation returned for a reply holding both keys with different
\* arrays: the quantities are those of "adjusted_grams"
C23_Witness ==
    /\ Parsed
    /\ RecFinished
    /\ outcome = "returned"
    /\ reply.keys = {"adjusted_grams", "adjusted_quantities"}
    /\ reply.adjusted_grams = << Num(890) >>
    /\ reply.adjusted_quantities = << Num(200) >>
    /\ recommendation.adjusted_quantities = << 900 >>

\* the positions of the cooking methods of meal whose name is method in
\* whatever letter case
Variants(meal, method) ==
    {j \in 1..Len(meal.cooking_methods) :
        Lower(meal.cooking_methods[j].method) = Lower(method)}

\* meal holds per100 scaled to one of the amounts the snapping may make of
\* grams, with that price per 100 g
ScaledFrom(meal, per100, price, grams) ==
    \E a \in Snapped(grams) :
        /\ meal.calories = per100.calories * a
        /\ meal.protein = per100.protein * a
        /\ meal.carbs = per100.carbs * a
        /\ meal.fat = per100.fat * a
        /\ meal.price = price * a

\* C24: for a menu entry whose name is in the catalog, the Meal
\* create_meal_from_response builds holds per-100g value * rounded grams / 100,
\* the per-100g record being the cooking method of the catalog meal whose name
\* is the entry's method in whatever letter case, with that method's price, or
\* the base values and the base price when the entry names no method or none
\* the meal has.
C24_CatalogValues ==
    (endpoint = "optimize_budget_menu" /\ pc \in {"gom_318", "gom_done"}
     /\ reply.kind = "object")
        => \A i \in 1..Len(Entries(reply)) :
              LET e == Entries(reply)[i]
                  created == create_meal_from_response(e)
                  actual_meal == catalog[FindMealLower(e.name)]
              IN  (e.grams.numeric /\ MatchesCatalog(e))
                      => /\ created.built
                         /\ IF e.method # "" /\ Variants(actual_meal, e.method) # {}
                            THEN \E j \in Variants(actual_meal, e.method) :
                                    ScaledFrom(created.meal, actual_meal.cooking_methods[j],
                                               actual_meal.cooking_methods[j].price,
                                               e.grams.value)
                            ELSE ScaledFrom(created.meal, actual_meal, actual_meal.price,
                                            e.grams.value)

\* a reply with 450 g of "uc ga" as "Grilled" and 450 g of it as "fried": the
\* first Meal has the calories and price of the catalog's "grilled" chicken
\* breast, the second those of the base meal
C24_Witness ==
    /\ endpoint = "optimize_budget_menu"
    /\ pc \in {"gom_318", "gom_done"}
    /\ reply.kind = "object"
    /\ Len(Entries(reply)) = 2
    /\ Entries(reply)[1].method = "Grilled"
    /\ Entries(reply)[2].method = "fried"
    /\ create_meal_from_response(Entries(reply)[1]).meal.calories = 2480 * 900
    /\ create_meal_from_response(Entries(reply)[1]).meal.price = 120000 * 900
    /\ create_meal_from_response(Entries(reply)[2]).meal.calories = 1650 * 900
    /\ create_meal_from_response(Entries(reply)[2]).meal.price = 80000 * 900

SumOver(meals, field) == SumTo([i \in 1..Len(meals) |-> meals[i][field]], Len(meals))

\* C26: every total of the OrderSummary calculate_order returns is the sum of
\* that field over the entries of its meals list, also when a catalog meal is
\* named with a cooking method it does not have.
C26_TotalsMatchMeals ==
    (endpoint = "calculate_order" /\ pc = "responded" /\ http = 200)
        => /\ result.total_calories = SumOver(result.meals, "calories")
           /\ result.total_protein = SumOver(result.meals, "protein")
           /\ result.total_carbs = SumOver(result.meals, "carbs")
           /\ result.total_fat = SumOver(result.meals, "fat")
           /\ result.total_cost = SumOver(result.meals, "cost")

\* the name of the Meal recommend_meals builds for entry meal_data of the
\* request: the catalog name, followed by the cooking method when one is given
EntryName(meal_data) ==
    IF meal_data.cooking_method = "" THEN meal_data.name
    ELSE meal_data.name \o " (" \o meal_data.cooking_method \o ")"

WithinFormBounds(u) ==
    /\ u.age >= 16 /\ u.age <= 100
    /\ u.height >= 100 /\ u.height <= 250
    /\ u.weight >= 30 /\ u.weight <= 200
    /\ ValidUser(u)

\* C28: for every profile within the bounds of the profile form the daily
\* calorie target and the protein, carbs and fat gram targets are strictly
\* positive.
C28_PositiveTargets ==
    (endpoint = "calculate_user_profile" /\ pc = "responded" /\ WithinFormBounds(request.user))
        => /\ http = 200
           /\ daily_calories > 0
           /\ macro_targets.protein > 0
           /\ macro_targets.carbs > 0
           /\ macro_targets.fat > 0

\* C29: the fallback menu holds the catalog meals named in the comments of
\* create_fallback_menu: Yen mach for breakfast, Uc ga for lunch and Bong cai
\* for dinner.
C29_FallbackItems ==
    FallbackReturned
        => /\ menu.breakfast = << catalog[FindMeal("Yen mach")] >>
           /\ menu.lunch = << catalog[FindMeal("Uc ga")] >>
           /\ menu.dinner = << catalog[FindMeal("Bong cai")] >>

====
